---------------------------- MODULE Spec2Model ----------------------------
(***************************************************************************)
(* Temperature logger firmware: bounded sample lists, the chronological    *)
(* merge iterator, linear interpolation and the compaction engine          *)
(* (exact merge / decimation) of app/src/temperature-logger.c.             *)
(*                                                                         *)
(* Conventions                                                             *)
(*  - a sample is a record [temperature, uptime]; temperature_t is int16,  *)
(*    sys_minutes_t is an unsigned minute counter;                         *)
(*  - a temperature_list_t is [data, length]; data is the whole fixed      *)
(*    array of `capacity` slots (C index i is data[i+1]), so stale slots   *)
(*    beyond length are part of the state;                                 *)
(*  - a pointer to a list is its identity (a string), a pointer to a       *)
(*    sample is [list, index] with the C (0-based) index;                  *)
(*  - `capacity` is CONFIG_TEMPERATURE_LOGGER_BUFFER_SIZE, fixed at build  *)
(*    time, hence chosen in Init and never changed.                        *)
(***************************************************************************)
EXTENDS Integers, Sequences, FiniteSets, Bags, TLC

(***************************************************************************)
(* Bounds of the model.                                                    *)
(***************************************************************************)
MaxCapacity == 3
MaxTime == 3
MaxTemp == 3

(***************************************************************************)
(* Capacity assumed by the concrete scenario ("Target length=5").          *)
(***************************************************************************)
ScenarioCapacity == 5

VARIABLES
    capacity,   \* CONFIG_TEMPERATURE_LOGGER_BUFFER_SIZE
    lists,      \* list identity -> temperature_list_t (data, length)
    lock_count, \* list identity -> lock_count of its k_mutex, held by the caller
    pc,         \* position of the running call
    ret,        \* value returned by the finished call
    iterator,   \* struct merge_iterator_t of the running merge
    sample,     \* struct temperature_sample_t *sample (out pointer)
    index,      \* size_t index of merge_without_decimation
    merged,     \* the slots of merged[] written so far
    dec,        \* locals of merge_with_decimation
    yielded,    \* history: sample pointers returned by merge_iterate
    interp,     \* arguments and result of an interpolate call (result is
                \* meaningful once returned)
    app,        \* argument and result of an append_temperature_sample call
    lock_owner, \* list identity -> owner of its k_mutex (NULL when free)
    args,       \* arguments of the running merge_temperature_lists call and
                \* the execution context making it
    before,     \* history: lists and lock_count when that call was entered
    thread,     \* execution context -> position in a multi-lock macro
    nvs,        \* the record stored under NVS_KEY_TEMPERATURE_DATA
    k_uptime,   \* the last value returned by get_uptime_in_minutes()
    task,       \* the delayable work item sampling_task and its handler
    config_settings, \* static struct config_settings_t config_settings
    config_nvs,      \* the record stored under NVS_KEY_CONFIG_SETTINGS
    config_call,     \* history: the last call into the configuration store
    w_data,          \* static struct wifi_data_t w_data (wifi_state)
    wifi_call        \* history: the last Wi-Fi call or event handled

\* the state outside the list operations proper
envVars == <<args, before, thread, nvs, k_uptime, task,
            config_settings, config_nvs, config_call, w_data, wifi_call>>

vars == <<capacity, lists, lock_count, pc, ret, iterator, sample, index, merged, dec,
          yielded, interp, app, lock_owner, envVars>>

mergeVars == <<pc, ret, iterator, sample, index, merged, dec, yielded>>

(***************************************************************************)
(* enum error_e (the members used here).                                   *)
(***************************************************************************)
E_SUCCESS == "E_SUCCESS"
E_ERROR == "E_ERROR"
E_NOBUFS == "E_NOBUFS"
E_NULL_PTR == "E_NULL_PTR"
E_END_OF_ITER == "E_END_OF_ITER"

NULL == "NULL"

(***************************************************************************)
(* C integer arithmetic.                                                   *)
(***************************************************************************)
\* C99 integer division: the quotient is truncated toward zero (b > 0).
TruncDiv(a, b) == IF a >= 0 THEN a \div b ELSE -((-a) \div b)

\* conversion of an int to int16_t (temperature_t): two's complement wrap
ToInt16(x) == ((x + 32768) % 65536) - 32768

MIN(a, b) == IF a < b THEN a ELSE b
MAX(a, b) == IF a > b THEN a ELSE b

(***************************************************************************)
(* Data model.                                                             *)
(***************************************************************************)
temperature_sample_t(temp, up) == [temperature |-> temp, uptime |-> up]

ZeroSample == temperature_sample_t(0, 0)

\* memset(t, 0, offsetof(struct temperature_list_t, lock))
ZeroList(n) == [data |-> [i \in 1..n |-> ZeroSample], length |-> 0]

\* *p for a sample pointer p into the lists L
Deref(L, p) == L[p.list].data[p.index + 1]

\* the first `length` entries of a list, as a sequence
Valid(l) == SubSeq(l.data, 1, l.length)

(***************************************************************************)
(* BoundedSampleList operations.                                           *)
(***************************************************************************)
\* reset_temperature_list: zero the array and the length (the list's mutex
\* is taken and released within the call)
reset_temperature_list(t) == ZeroList(Len(t.data))

\* append_temperature_sample rejecting one slot early (length == N - 1)
append_temperature_sample_EarlyFull(list, s) ==
    IF list.length = Len(list.data) - 1
    THEN [err |-> E_NOBUFS, list |-> list]
    ELSE [err |-> E_SUCCESS,
          list |-> [data |-> [list.data EXCEPT ![list.length + 1] = s],
                    length |-> list.length + 1]]

\* append_temperature_sample: the returned error and the list afterwards
\* (the list's mutex is taken on entry and released on both exits)
append_temperature_sample(list, s) ==
    IF list.length = Len(list.data)
    THEN [err |-> E_NOBUFS, list |-> list]
    ELSE [err |-> E_SUCCESS,
          list |-> [data |-> [list.data EXCEPT ![list.length + 1] = s],
                    length |-> list.length + 1]]

(***************************************************************************)
(* Interpolator.                                                           *)
(* The quotient is computed in float (IEEE 754 single precision, each      *)
(* operation rounded to nearest) and converted to int16_t, which truncates *)
(* toward zero.  The operands are integers of at most FLT_MANT_DIG bits    *)
(* and exact in float; the product is rounded when it has more bits, and   *)
(* the quotient is rounded always.  uptime - earlier->uptime is an         *)
(* unsigned subtraction; the inputs of the model keep                      *)
(* uptime >= earlier->uptime.                                              *)
(***************************************************************************)
\* <float.h>: the bits of the significand of a float (IEEE 754 single)
FLT_MANT_DIG == 24

\* the exponent of the binade of n >= 1: 2^k <= n < 2^(k + 1)
Binade(n) == CHOOSE k \in 0..29 : 2^k <= n /\ n < 2^(k + 1)

\* the float nearest to the integer n, 0 <= n < 2^30: n itself when it has
\* at most FLT_MANT_DIG bits, else n rounded to that many bits, a tie going
\* to the even significand
RoundToFloat(n) ==
    IF n < 2^FLT_MANT_DIG THEN n
    ELSE LET ulp == 2^(Binade(n) + 1 - FLT_MANT_DIG)
             low == (n \div ulp) * ulp
         IN  IF 2 * (n - low) < ulp THEN low
             ELSE IF 2 * (n - low) > ulp THEN low + ulp
             ELSE IF (low \div ulp) % 2 = 0 THEN low ELSE low + ulp

\* the integer part of the float quotient p / b of two floats with integer
\* values, p >= 0 and 0 < b < 2^FLT_MANT_DIG: the exact quotient rounds up
\* to the next integer when it lies within half a unit in the last place of
\* it (the integer has the even significand), and the cast truncates
TruncFloatQuot(p, b) ==
    LET n == p \div b
    IN  IF p % b = 0 \/ n = 0 THEN n
        ELSE IF (n + 1) * b - p <= b \div 2^(FLT_MANT_DIG - Binade(n))
        THEN n + 1
        ELSE n

\* (int16_t)((float)d_temp * (float)num / (float)den) before the narrowing
\* to 16 bits: the product is rounded to a float, then the quotient, and
\* the cast truncates toward zero
ScaleFloat(d_temp, num, den) ==
    IF d_temp >= 0
    THEN TruncFloatQuot(RoundToFloat(d_temp * num), den)
    ELSE -TruncFloatQuot(RoundToFloat((-d_temp) * num), den)

\* interpolate with the mean of equal-uptime samples rounded down (an
\* arithmetic shift in place of the division)
interpolate_FloorMean(t1, t2, uptime) ==
    IF t1.uptime = t2.uptime
    THEN [temperature |-> ToInt16((t1.temperature + t2.temperature) \div 2),
          uptime |-> uptime]
    ELSE LET earlier == IF t1.uptime < t2.uptime THEN t1 ELSE t2
             later == IF t1.uptime < t2.uptime THEN t2 ELSE t1
             d_temp == t2.temperature - t1.temperature
             d_uptime == later.uptime - earlier.uptime
             d_uptime_to_result == uptime - earlier.uptime
             d_temp_to_result == ScaleFloat(d_temp, d_uptime_to_result, d_uptime)
         IN  [temperature |-> ToInt16(earlier.temperature + d_temp_to_result),
              uptime |-> uptime]

interpolate(t1, t2, uptime) ==
    IF t1.uptime = t2.uptime
    THEN [temperature |-> ToInt16(TruncDiv(t1.temperature + t2.temperature, 2)),
          uptime |-> uptime]
    ELSE LET earlier == IF t1.uptime < t2.uptime THEN t1 ELSE t2
             later == IF t1.uptime < t2.uptime THEN t2 ELSE t1
             d_temp == t2.temperature - t1.temperature
             d_uptime == later.uptime - earlier.uptime
             d_uptime_to_result == uptime - earlier.uptime
             d_temp_to_result == ScaleFloat(d_temp, d_uptime_to_result, d_uptime)
         IN  [temperature |-> ToInt16(earlier.temperature + d_temp_to_result),
              uptime |-> uptime]

(***************************************************************************)
(* ChronologicalMergeIterator.                                             *)
(***************************************************************************)
\* the iterator object before init_merge_iterator has run (stack garbage;
\* no field is read before init_merge_iterator or the NULL test assigns it)
UninitIterator ==
    [src1 |-> NULL, src2 |-> NULL, current_list |-> NULL, current_index |-> 0,
     next_src1_index |-> 0, next_src2_index |-> 0]

\* init_merge_iterator starting at the later of the two first samples
init_merge_iterator_Later(m, src1, src2, L) ==
    LET m0 == [m EXCEPT !.src1 = src1, !.src2 = src2, !.current_index = 0]
    IN  IF L[src1].length = 0 /\ L[src2].length = 0
        THEN [m0 EXCEPT !.current_list = NULL]
        ELSE IF L[src1].length = 0
        THEN [m0 EXCEPT !.current_list = src2,
                        !.next_src1_index = 0, !.next_src2_index = 1]
        ELSE IF L[src2].length = 0
        THEN [m0 EXCEPT !.current_list = src1,
                        !.next_src1_index = 1, !.next_src2_index = 0]
        ELSE IF L[src1].data[1].uptime > L[src2].data[1].uptime
        THEN [m0 EXCEPT !.current_list = src1,
                        !.next_src1_index = 1, !.next_src2_index = 0]
        ELSE [m0 EXCEPT !.current_list = src2,
                        !.next_src1_index = 0, !.next_src2_index = 1]

\* init_merge_iterator without the both-empty test: slot 0 of src2 is current
init_merge_iterator_NoBothEmpty(m, src1, src2, L) ==
    LET m0 == [m EXCEPT !.src1 = src1, !.src2 = src2, !.current_index = 0]
    IN  IF L[src1].length = 0 /\ L[src2].length = 0
        THEN [m0 EXCEPT !.current_list = src2,
                        !.next_src1_index = 0, !.next_src2_index = 0]
        ELSE IF L[src1].length = 0
        THEN [m0 EXCEPT !.current_list = src2,
                        !.next_src1_index = 0, !.next_src2_index = 1]
        ELSE IF L[src2].length = 0
        THEN [m0 EXCEPT !.current_list = src1,
                        !.next_src1_index = 1, !.next_src2_index = 0]
        ELSE IF L[src1].data[1].uptime < L[src2].data[1].uptime
        THEN [m0 EXCEPT !.current_list = src1,
                        !.next_src1_index = 1, !.next_src2_index = 0]
        ELSE [m0 EXCEPT !.current_list = src2,
                        !.next_src1_index = 0, !.next_src2_index = 1]

\* init_merge_iterator(m, src1, src2) over the lists L: the iterator afterwards.
\* With both lists empty the next_src*_index fields are left unassigned.
init_merge_iterator(m, src1, src2, L) ==
    LET m0 == [m EXCEPT !.src1 = src1, !.src2 = src2, !.current_index = 0]
    IN  IF L[src1].length = 0 /\ L[src2].length = 0
        THEN [m0 EXCEPT !.current_list = NULL]
        ELSE IF L[src1].length = 0
        THEN [m0 EXCEPT !.current_list = src2,
                        !.next_src1_index = 0, !.next_src2_index = 1]
        ELSE IF L[src2].length = 0
        THEN [m0 EXCEPT !.current_list = src1,
                        !.next_src1_index = 1, !.next_src2_index = 0]
        ELSE IF L[src1].data[1].uptime < L[src2].data[1].uptime
        THEN [m0 EXCEPT !.current_list = src1,
                        !.next_src1_index = 1, !.next_src2_index = 0]
        ELSE [m0 EXCEPT !.current_list = src2,
                        !.next_src1_index = 0, !.next_src2_index = 1]

\* merge_iterate advancing src1 on equal uptimes (<= in place of <)
merge_iterate_TieToSrc1(m, out, L) ==
    IF m.current_list = NULL
    THEN [err |-> E_END_OF_ITER, sample |-> out, m |-> m]
    ELSE
      LET s == [list |-> m.current_list, index |-> m.current_index]
          at_src1_end == m.next_src1_index = L[m.src1].length
          at_src2_end == m.next_src2_index = L[m.src2].length
          to_src1 == [m EXCEPT !.current_list = m.src1,
                               !.current_index = m.next_src1_index,
                               !.next_src1_index = m.next_src1_index + 1]
          to_src2 == [m EXCEPT !.current_list = m.src2,
                               !.current_index = m.next_src2_index,
                               !.next_src2_index = m.next_src2_index + 1]
          m1 == IF at_src1_end /\ at_src2_end
                THEN [m EXCEPT !.current_list = NULL]
                ELSE IF at_src1_end THEN to_src2
                ELSE IF at_src2_end THEN to_src1
                ELSE IF L[m.src1].data[m.next_src1_index + 1].uptime
                          <= L[m.src2].data[m.next_src2_index + 1].uptime
                THEN to_src1
                ELSE to_src2
      IN  [err |-> E_SUCCESS, sample |-> s, m |-> m1]

\* merge_iterate with the comparison of the two candidates reversed
merge_iterate_Reversed(m, out, L) ==
    IF m.current_list = NULL
    THEN [err |-> E_END_OF_ITER, sample |-> out, m |-> m]
    ELSE
      LET s == [list |-> m.current_list, index |-> m.current_index]
          at_src1_end == m.next_src1_index = L[m.src1].length
          at_src2_end == m.next_src2_index = L[m.src2].length
          to_src1 == [m EXCEPT !.current_list = m.src1,
                               !.current_index = m.next_src1_index,
                               !.next_src1_index = m.next_src1_index + 1]
          to_src2 == [m EXCEPT !.current_list = m.src2,
                               !.current_index = m.next_src2_index,
                               !.next_src2_index = m.next_src2_index + 1]
          m1 == IF at_src1_end /\ at_src2_end
                THEN [m EXCEPT !.current_list = NULL]
                ELSE IF at_src1_end THEN to_src2
                ELSE IF at_src2_end THEN to_src1
                ELSE IF L[m.src1].data[m.next_src1_index + 1].uptime
                          > L[m.src2].data[m.next_src2_index + 1].uptime
                THEN to_src1
                ELSE to_src2
      IN  [err |-> E_SUCCESS, sample |-> s, m |-> m1]

\* merge_iterate ending the iteration as soon as either list is drained
merge_iterate_StopAtFirstEnd(m, out, L) ==
    IF m.current_list = NULL
    THEN [err |-> E_END_OF_ITER, sample |-> out, m |-> m]
    ELSE
      LET s == [list |-> m.current_list, index |-> m.current_index]
          at_src1_end == m.next_src1_index = L[m.src1].length
          at_src2_end == m.next_src2_index = L[m.src2].length
          to_src1 == [m EXCEPT !.current_list = m.src1,
                               !.current_index = m.next_src1_index,
                               !.next_src1_index = m.next_src1_index + 1]
          to_src2 == [m EXCEPT !.current_list = m.src2,
                               !.current_index = m.next_src2_index,
                               !.next_src2_index = m.next_src2_index + 1]
          m1 == IF at_src1_end \/ at_src2_end
                THEN [m EXCEPT !.current_list = NULL]
                ELSE IF L[m.src1].data[m.next_src1_index + 1].uptime
                          < L[m.src2].data[m.next_src2_index + 1].uptime
                THEN to_src1
                ELSE to_src2
      IN  [err |-> E_SUCCESS, sample |-> s, m |-> m1]

\* merge_iterate clearing the out pointer and rewinding the iterator when it
\* reports the end
merge_iterate_Restartable(m, out, L) ==
    IF m.current_list = NULL
    THEN [err |-> E_END_OF_ITER, sample |-> [list |-> NULL, index |-> 0],
          m |-> IF L[m.src1].length = 0 THEN m
                ELSE [m EXCEPT !.current_list = m.src1, !.current_index = 0,
                               !.next_src1_index = 1, !.next_src2_index = 0]]
    ELSE
      LET s == [list |-> m.current_list, index |-> m.current_index]
          at_src1_end == m.next_src1_index = L[m.src1].length
          at_src2_end == m.next_src2_index = L[m.src2].length
          to_src1 == [m EXCEPT !.current_list = m.src1,
                               !.current_index = m.next_src1_index,
                               !.next_src1_index = m.next_src1_index + 1]
          to_src2 == [m EXCEPT !.current_list = m.src2,
                               !.current_index = m.next_src2_index,
                               !.next_src2_index = m.next_src2_index + 1]
          m1 == IF at_src1_end /\ at_src2_end
                THEN [m EXCEPT !.current_list = NULL]
                ELSE IF at_src1_end THEN to_src2
                ELSE IF at_src2_end THEN to_src1
                ELSE IF L[m.src1].data[m.next_src1_index + 1].uptime
                          < L[m.src2].data[m.next_src2_index + 1].uptime
                THEN to_src1
                ELSE to_src2
      IN  [err |-> E_SUCCESS, sample |-> s, m |-> m1]

\* merge_iterate(m, &sample) over the lists L: the returned error, the
\* out pointer afterwards (untouched on E_END_OF_ITER) and the iterator.
merge_iterate(m, out, L) ==
    IF m.current_list = NULL
    THEN [err |-> E_END_OF_ITER, sample |-> out, m |-> m]
    ELSE
      LET s == [list |-> m.current_list, index |-> m.current_index]
          at_src1_end == m.next_src1_index = L[m.src1].length
          at_src2_end == m.next_src2_index = L[m.src2].length
          to_src1 == [m EXCEPT !.current_list = m.src1,
                               !.current_index = m.next_src1_index,
                               !.next_src1_index = m.next_src1_index + 1]
          to_src2 == [m EXCEPT !.current_list = m.src2,
                               !.current_index = m.next_src2_index,
                               !.next_src2_index = m.next_src2_index + 1]
          m1 == IF at_src1_end /\ at_src2_end
                THEN [m EXCEPT !.current_list = NULL]
                ELSE IF at_src1_end THEN to_src2
                ELSE IF at_src2_end THEN to_src1
                ELSE IF L[m.src1].data[m.next_src1_index + 1].uptime
                          < L[m.src2].data[m.next_src2_index + 1].uptime
                THEN to_src1
                ELSE to_src2
      IN  [err |-> E_SUCCESS, sample |-> s, m |-> m1]

(***************************************************************************)
(* CompactionEngine: merge_temperature_lists(src1, src2, dest) and the two *)
(* routines it dispatches to, one action per statement group or loop       *)
(* iteration.  The arguments of the call are args.src1, args.src2 and      *)
(* args.dest: three distinct list objects in the merge tests, the RAM list *)
(* and twice the scratch list in the sampling task.                        *)
(***************************************************************************)
Src1 == args.src1
Src2 == args.src2
Dest == args.dest

\* the execution context that runs the call
Caller == args.thread

NullSample == [list |-> NULL, index |-> 0]

\* the locals of merge_with_decimation before the routine has run
DecIdle ==
    [start_uptime |-> 0, end_uptime |-> 0, merge_duration |-> 0,
     sample_base_period |-> 0, long_periods_needed |-> 0,
     prev |-> NullSample, current |-> NullSample,
     merge_index |-> 0, merge_uptime |-> 0]

\* the addresses of the list objects: the three statics of the merge tests
\* and the two members of t_data, each group in declaration order
Address ==
    [src1 |-> 1, src2 |-> 2, dest |-> 3,
     temperature_list |-> 4, scratch_temperature_list |-> 5]

\* k_mutex_lock(l, K_FOREVER) by context t returns at once when the mutex is
\* free or already owned by t (k_mutex is reentrant); otherwise t waits
Acquirable(lc, lo, l, t) == lc[l] = 0 \/ lo[l] = t

\* the lock_count of k_mutex l after k_mutex_lock / k_mutex_unlock by its
\* owner
k_mutex_lock(lc, l) == [lc EXCEPT ![l] = @ + 1]
k_mutex_unlock(lc, l) == [lc EXCEPT ![l] = @ - 1]

\* the owner fields once context t has locked or unlocked, giving the
\* counts lc: a mutex with lock_count 0 has no owner, the others keep theirs
\* or are owned by t
OwnerAfter(lo, lc, t) ==
    [l \in DOMAIN lo |->
       IF lc[l] = 0 THEN NULL ELSE IF lo[l] = NULL THEN t ELSE lo[l]]

\* one compare-and-swap of the bubble sort of locks[] by address
SwapIfGreater(locks, j) ==
    IF Address[locks[j]] > Address[locks[j + 1]]
    THEN [locks EXCEPT ![j] = locks[j + 1], ![j + 1] = locks[j]]
    ELSE locks

\* the bubble sort of TRIPLE_LOCK / TRIPLE_UNLOCK: (i,j) = (0,0), (0,1), (1,0)
SortLocks(locks) == SwapIfGreater(SwapIfGreater(SwapIfGreater(locks, 1), 2), 1)

\* TRIPLE_LOCK(lock1, lock2, lock3, K_FOREVER): lock in ascending address order
TRIPLE_LOCK(lc, lock1, lock2, lock3) ==
    LET locks == SortLocks(<<lock1, lock2, lock3>>)
    IN  k_mutex_lock(k_mutex_lock(k_mutex_lock(lc, locks[1]), locks[2]), locks[3])

\* TRIPLE_UNLOCK unlocking every distinct mutex once
TRIPLE_UNLOCK_Distinct(lc, lock1, lock2, lock3) ==
    [l \in DOMAIN lc |-> IF l \in {lock1, lock2, lock3} THEN lc[l] - 1 ELSE lc[l]]

\* TRIPLE_UNLOCK(lock1, lock2, lock3): unlock in descending address order
TRIPLE_UNLOCK(lc, lock1, lock2, lock3) ==
    LET locks == SortLocks(<<lock1, lock2, lock3>>)
    IN  k_mutex_unlock(k_mutex_unlock(k_mutex_unlock(lc, locks[3]), locks[2]), locks[1])

\* the dispatch test with < in place of <=
FitsWithoutDecimation_Strict(l1, l2, n) == l1.length + l2.length < n

\* the dispatch test of merge_temperature_lists
FitsWithoutDecimation(l1, l2, n) == l1.length + l2.length <= n

\* the staged copy writing the samples to dest last first
CopyToDest_Reversed(d, m, count) ==
    [data |-> [i \in 1..Len(d.data) |->
                 IF i <= count THEN m[count + 1 - i] ELSE d.data[i]],
     length |-> count]

\* the staged copy setting dest->length one too high
CopyToDest_OffByOne(d, m, count) ==
    [data |-> [i \in 1..Len(d.data) |-> IF i <= count THEN m[i] ELSE d.data[i]],
     length |-> count + 1]

\* memmove(dest->data, merged, sizeof(sample) * count); dest->length = count
CopyToDest(d, m, count) ==
    [data |-> [i \in 1..Len(d.data) |-> IF i <= count THEN m[i] ELSE d.data[i]],
     length |-> count]

(***************************************************************************)
(* sys_minutes_t is an unsigned integer of 32 bits (interpolate narrows    *)
(* its differences with (uint32_t); its typedef is in app/time.h).  The    *)
(* value v is held as v below 2^31 and as v - 2^32 from there on, so that  *)
(* a difference end - start of two small uptimes is the plain difference   *)
(* and a negative number stands for the value that has wrapped.            *)
(***************************************************************************)
INT32_MAX == 2147483647

\* a + b in 32 bits
U32Add(a, b) ==
    IF a >= 0 /\ b >= 0
    THEN IF a > INT32_MAX - b
         THEN ((a - INT32_MAX) - 1) + ((b - INT32_MAX) - 1)
         ELSE a + b
    ELSE IF a < 0 /\ b < 0
    THEN IF a >= (-INT32_MAX - 1) - b
         THEN a + b
         ELSE ((a + INT32_MAX) + 1) + ((b + INT32_MAX) + 1)
    ELSE a + b

\* a / n and a % n, unsigned, for n >= 1: a wrapped value is
\* h + INT32_MAX + 1 with 0 <= h <= INT32_MAX
U32DivMod(a, n) ==
    IF a >= 0 THEN [quot |-> a \div n, rem |-> a % n]
    ELSE IF n = 1 THEN [quot |-> a, rem |-> 0]
    ELSE LET h == INT32_MAX + (1 + a)
             c == (h % n) + (INT32_MAX % n) + 1
         IN  [quot |-> (h \div n) + (INT32_MAX \div n) + (c \div n),
              rem |-> c % n]

\* a <= b, unsigned
U32Le(a, b) == IF (a >= 0) = (b >= 0) THEN a <= b ELSE a >= 0

\* the time locals with the duration divided over n periods instead of n - 1
TimeGrid_PerSample(s1, s2, n) ==
    LET start_uptime == MIN(s1.data[1].uptime, s2.data[1].uptime)
        end_uptime == MAX(s1.data[s1.length].uptime, s2.data[s2.length].uptime)
        merge_duration == end_uptime - start_uptime
    IN  [start_uptime |-> start_uptime,
         end_uptime |-> end_uptime,
         merge_duration |-> merge_duration,
         sample_base_period |-> U32DivMod(merge_duration, n).quot,
         long_periods_needed |-> U32DivMod(merge_duration, n).rem,
         prev |-> [list |-> NULL, index |-> 0],
         current |-> [list |-> NULL, index |-> 0],
         merge_index |-> 0,
         merge_uptime |-> start_uptime]

\* the time locals of merge_with_decimation: start, end, duration, base
\* period and number of long periods (both lists are non-empty here, the
\* sum of their lengths exceeding the capacity n of each)
TimeGrid(s1, s2, n) ==
    LET start_uptime == MIN(s1.data[1].uptime, s2.data[1].uptime)
        end_uptime == MAX(s1.data[s1.length].uptime, s2.data[s2.length].uptime)
        merge_duration == end_uptime - start_uptime
    IN  [DecIdle EXCEPT
           !.start_uptime = start_uptime,
           !.end_uptime = end_uptime,
           !.merge_duration = merge_duration,
           !.sample_base_period = U32DivMod(merge_duration, n - 1).quot,
           !.long_periods_needed = U32DivMod(merge_duration, n - 1).rem,
           !.merge_index = 0,
           !.merge_uptime = start_uptime]

\* the grid step taking the long period every time
NextMergeUptime_Long(merge_uptime, sample_base_period, merge_index, long_periods_needed) ==
    U32Add(merge_uptime, U32Add(sample_base_period, 1))

\* the grid step with one long period too few (< in place of <=)
NextMergeUptime_Short(merge_uptime, sample_base_period, merge_index, long_periods_needed) ==
    U32Add(merge_uptime,
           U32Add(sample_base_period,
                  IF merge_index < long_periods_needed THEN 1 ELSE 0))

\* merge_uptime += sample_base_period + (merge_index <= long_periods_needed ? 1 : 0)
\* with merge_index already incremented
NextMergeUptime(merge_uptime, sample_base_period, merge_index, long_periods_needed) ==
    U32Add(merge_uptime,
           U32Add(sample_base_period,
                  IF merge_index <= long_periods_needed THEN 1 ELSE 0))

\* merge_temperature_lists: a null pointer among the three gives E_NULL_PTR
\* at once; otherwise TRIPLE_LOCK and the dispatch on the lengths
merge_temperature_lists ==
    /\ pc = "merge_temperature_lists"
    /\ IF NULL \in {Src1, Src2, Dest}
       THEN /\ ret' = E_NULL_PTR
            /\ pc' = "done"
            /\ UNCHANGED <<lock_count, lock_owner>>
       ELSE /\ pc' = IF FitsWithoutDecimation(lists[Src1], lists[Src2], capacity)
                     THEN "merge_without_decimation"
                     ELSE "merge_with_decimation"
            /\ \A l \in {Src1, Src2, Dest} :
                 Acquirable(lock_count, lock_owner, l, Caller)
            /\ lock_count' = TRIPLE_LOCK(lock_count, Src1, Src2, Dest)
            /\ lock_owner' = OwnerAfter(lock_owner, lock_count', Caller)
            /\ UNCHANGED ret
    /\ UNCHANGED <<envVars, capacity, lists, iterator, sample, index, merged, dec,
                   yielded, interp, app>>

\* merge_without_decimation up to the loop: index = 0, init_merge_iterator
merge_without_decimation_init ==
    /\ pc = "merge_without_decimation"
    /\ index' = 0
    /\ iterator' = init_merge_iterator(iterator, Src1, Src2, lists)
    /\ pc' = "nd_loop"
    /\ UNCHANGED <<envVars, capacity, lock_count, lock_owner, lists, ret, sample, merged, dec, yielded,
                   interp, app>>

\* the drain loop handing the iterator's E_END_OF_ITER on to the caller
merge_without_decimation_loop_Leak ==
    /\ pc = "nd_loop"
    /\ LET r == merge_iterate(iterator, sample, lists)
       IN  /\ iterator' = r.m
           /\ sample' = r.sample
           /\ lock_count' = IF r.err = E_SUCCESS THEN lock_count
                             ELSE TRIPLE_UNLOCK(lock_count, Src1, Src2, Dest)
           /\ lock_owner' = OwnerAfter(lock_owner, lock_count', Caller)
           /\ IF r.err # E_SUCCESS
              THEN /\ lists' = [lists EXCEPT ![Dest] = CopyToDest(@, merged, index)]
                   /\ ret' = r.err
                   /\ pc' = "done"
                   /\ UNCHANGED <<index, merged, yielded>>
              ELSE /\ merged' = Append(merged, Deref(lists, r.sample))
                   /\ index' = index + 1
                   /\ yielded' = Append(yielded, r.sample)
                   /\ UNCHANGED <<lists, ret, pc>>
    /\ UNCHANGED <<envVars, capacity, dec, interp, app>>

\* the drain loop writing each sample to dest as it is returned, no staging
merge_without_decimation_loop_InPlace ==
    /\ pc = "nd_loop"
    /\ LET r == merge_iterate(iterator, sample, lists)
       IN  /\ iterator' = r.m
           /\ sample' = r.sample
           /\ lock_count' = IF r.err = E_SUCCESS THEN lock_count
                             ELSE TRIPLE_UNLOCK(lock_count, Src1, Src2, Dest)
           /\ lock_owner' = OwnerAfter(lock_owner, lock_count', Caller)
           /\ IF r.err = E_END_OF_ITER
              THEN /\ lists' = [lists EXCEPT ![Dest].length = index]
                   /\ ret' = E_SUCCESS
                   /\ pc' = "done"
                   /\ UNCHANGED <<index, merged, yielded>>
              ELSE IF r.err # E_SUCCESS
              THEN /\ ret' = E_ERROR
                   /\ pc' = "done"
                   /\ UNCHANGED <<lists, index, merged, yielded>>
              ELSE /\ merged' = Append(merged, Deref(lists, r.sample))
                   /\ lists' = [lists EXCEPT ![Dest].data[index + 1] =
                                                 Deref(lists, r.sample)]
                   /\ index' = index + 1
                   /\ yielded' = Append(yielded, r.sample)
                   /\ UNCHANGED <<ret, pc>>
    /\ UNCHANGED <<envVars, capacity, dec, interp, app>>

\* one iteration of the drain loop of merge_without_decimation
merge_without_decimation_loop ==
    /\ pc = "nd_loop"
    /\ LET r == merge_iterate(iterator, sample, lists)
       IN  /\ iterator' = r.m
           /\ sample' = r.sample
           /\ lock_count' = IF r.err = E_SUCCESS THEN lock_count
                             ELSE TRIPLE_UNLOCK(lock_count, Src1, Src2, Dest)
           /\ lock_owner' = OwnerAfter(lock_owner, lock_count', Caller)
           /\ IF r.err = E_END_OF_ITER
              THEN /\ lists' = [lists EXCEPT ![Dest] = CopyToDest(@, merged, index)]
                   /\ ret' = E_SUCCESS
                   /\ pc' = "done"
                   /\ UNCHANGED <<index, merged, yielded>>
              ELSE IF r.err # E_SUCCESS
              THEN /\ ret' = E_ERROR
                   /\ pc' = "done"
                   /\ UNCHANGED <<lists, index, merged, yielded>>
              ELSE /\ merged' = Append(merged, Deref(lists, r.sample))
                   /\ index' = index + 1
                   /\ yielded' = Append(yielded, r.sample)
                   /\ UNCHANGED <<lists, ret, pc>>
    /\ UNCHANGED <<envVars, capacity, dec, interp, app>>

\* merge_with_decimation up to init_merge_iterator: the time grid
merge_with_decimation_init ==
    /\ pc = "merge_with_decimation"
    /\ dec' = TimeGrid(lists[Src1], lists[Src2], capacity)
    /\ iterator' = init_merge_iterator(iterator, Src1, Src2, lists)
    /\ pc' = "d_prev"
    /\ UNCHANGED <<envVars, capacity, lock_count, lock_owner, lists, ret, sample, index, merged, yielded,
                   interp, app>>

\* merge_iterate(&iterator, &prev), return value ignored
merge_with_decimation_prev ==
    /\ pc = "d_prev"
    /\ LET r == merge_iterate(iterator, dec.prev, lists)
       IN  /\ iterator' = r.m
           /\ dec' = [dec EXCEPT !.prev = r.sample]
           /\ yielded' = IF r.err = E_SUCCESS THEN Append(yielded, r.sample)
                         ELSE yielded
    /\ pc' = "d_current"
    /\ UNCHANGED <<envVars, capacity, lock_count, lock_owner, lists, ret, sample, index, merged, interp, app>>

\* merge_iterate(&iterator, &current), return value ignored
merge_with_decimation_current ==
    /\ pc = "d_current"
    /\ LET r == merge_iterate(iterator, dec.current, lists)
       IN  /\ iterator' = r.m
           /\ dec' = [dec EXCEPT !.current = r.sample]
           /\ yielded' = IF r.err = E_SUCCESS THEN Append(yielded, r.sample)
                         ELSE yielded
    /\ pc' = "d_loop"
    /\ UNCHANGED <<envVars, capacity, lock_count, lock_owner, lists, ret, sample, index, merged, interp, app>>

\* the emitting iteration writing its value to dest->data at once
merge_with_decimation_emit_InPlace ==
    /\ pc = "d_loop"
    /\ dec.merge_index < capacity
    /\ U32Le(Deref(lists, dec.prev).uptime, dec.merge_uptime)
    /\ U32Le(dec.merge_uptime, Deref(lists, dec.current).uptime)
    /\ LET s == interpolate(Deref(lists, dec.prev), Deref(lists, dec.current),
                            dec.merge_uptime)
       IN  /\ merged' = Append(merged, s)
           /\ lists' = [lists EXCEPT ![Dest].data[dec.merge_index + 1] = s]
    /\ LET mi == dec.merge_index + 1
       IN  dec' = [dec EXCEPT
                     !.merge_index = mi,
                     !.merge_uptime = NextMergeUptime(dec.merge_uptime,
                                          dec.sample_base_period, mi,
                                          dec.long_periods_needed)]
    /\ UNCHANGED <<envVars, capacity, lock_count, lock_owner, pc, ret, iterator, sample, index, yielded,
                   interp, app>>

\* loop iteration that emits: the target lies within [prev, current]
merge_with_decimation_emit ==
    /\ pc = "d_loop"
    /\ dec.merge_index < capacity
    /\ U32Le(Deref(lists, dec.prev).uptime, dec.merge_uptime)
    /\ U32Le(dec.merge_uptime, Deref(lists, dec.current).uptime)
    /\ merged' = Append(merged, interpolate(Deref(lists, dec.prev),
                                            Deref(lists, dec.current),
                                            dec.merge_uptime))
    /\ LET mi == dec.merge_index + 1
       IN  dec' = [dec EXCEPT
                     !.merge_index = mi,
                     !.merge_uptime = NextMergeUptime(dec.merge_uptime,
                                          dec.sample_base_period, mi,
                                          dec.long_periods_needed)]
    /\ UNCHANGED <<envVars, capacity, lock_count, lock_owner, lists, pc, ret, iterator, sample, index, yielded,
                   interp, app>>

\* the shifting iteration without the call of merge_iterate
merge_with_decimation_shift_NoAdvance ==
    /\ pc = "d_loop"
    /\ dec.merge_index < capacity
    /\ ~ (/\ U32Le(Deref(lists, dec.prev).uptime, dec.merge_uptime)
          /\ U32Le(dec.merge_uptime, Deref(lists, dec.current).uptime))
    /\ dec' = [dec EXCEPT !.prev = dec.current]
    /\ UNCHANGED <<envVars, capacity, lists, lock_count, lock_owner, pc, ret,
                   iterator, yielded, sample, index, merged, interp, app>>

\* loop iteration that shifts: prev = current, current = next of the iterator
merge_with_decimation_shift ==
    /\ pc = "d_loop"
    /\ dec.merge_index < capacity
    /\ ~ (/\ U32Le(Deref(lists, dec.prev).uptime, dec.merge_uptime)
          /\ U32Le(dec.merge_uptime, Deref(lists, dec.current).uptime))
    /\ LET r == merge_iterate(iterator, dec.current, lists)
       IN  /\ iterator' = r.m
           /\ dec' = [dec EXCEPT !.prev = dec.current, !.current = r.sample]
           /\ lock_count' = IF r.err = E_SUCCESS THEN lock_count
                             ELSE TRIPLE_UNLOCK(lock_count, Src1, Src2, Dest)
           /\ lock_owner' = OwnerAfter(lock_owner, lock_count', Caller)
           /\ IF r.err # E_SUCCESS
              THEN /\ ret' = E_ERROR
                   /\ pc' = "done"
                   /\ UNCHANGED yielded
              ELSE /\ yielded' = Append(yielded, r.sample)
                   /\ UNCHANGED <<ret, pc>>
    /\ UNCHANGED <<envVars, capacity, lists, sample, index, merged, interp, app>>

\* after the loop: copy the result to dest, TRIPLE_UNLOCK, return
merge_with_decimation_copy ==
    /\ pc = "d_loop"
    /\ ~ (dec.merge_index < capacity)
    /\ lists' = [lists EXCEPT ![Dest] = CopyToDest(@, merged, capacity)]
    /\ lock_count' = TRIPLE_UNLOCK(lock_count, Src1, Src2, Dest)
    /\ lock_owner' = OwnerAfter(lock_owner, lock_count', Caller)
    /\ ret' = E_SUCCESS
    /\ pc' = "done"
    /\ UNCHANGED <<envVars, capacity, iterator, sample, index, merged, dec, yielded,
                   interp, app>>

(***************************************************************************)
(* Inputs: time-ordered lists over the uptimes 0..MaxTime whose            *)
(* temperatures follow a linear ramp (as the lists of the merge tests do). *)
(***************************************************************************)
Ramps == {<<160, 3>>, <<-40, -7>>}

SortedUptimes(k) ==
    {u \in [1..k -> 0..MaxTime] : \A i \in 1..(k - 1) : u[i] <= u[i + 1]}

MkList(u, r, n) ==
    [data |-> [i \in 1..n |->
                 IF i <= Len(u)
                 THEN temperature_sample_t(r[1] + (i - 1) * r[2], u[i])
                 ELSE ZeroSample],
     length |-> Len(u)]

InputLists(n) ==
    {MkList(u, r, n) : u \in UNION {SortedUptimes(k) : k \in 0..n}, r \in Ramps}

NoInterp ==
    [t1 |-> ZeroSample, t2 |-> ZeroSample, uptime |-> 0, returned |-> FALSE,
     result |-> ZeroSample]
NoAppend == [before |-> NULL, sample |-> NULL, err |-> NULL]

(***************************************************************************)
(* The configuration store (src/unnamed/part_001) and the Wi-Fi station    *)
(* (src/app/src/wifi.c) before any of their functions has run.  A buffer   *)
(* of char is a sequence of byte values 0..255.  The lengths of            *)
(* constants.h are scaled down.                                            *)
(***************************************************************************)
WIFI_SSID_MAX_LENGTH == 2
WIFI_PASSWORD_MAX_LENGTH == 3
WIFI_PASSWORD_MIN_LENGTH == 2

\* static struct config_settings_t config_settings = {0}, nothing stored
\* under NVS_KEY_CONFIG_SETTINGS, no call made
ConfigStatic ==
    LET zero == [wifi_ssid |-> [i \in 1..(WIFI_SSID_MAX_LENGTH + 1) |-> 0],
                 wifi_password |-> [i \in 1..(WIFI_PASSWORD_MAX_LENGTH + 1) |-> 0]]
    IN  /\ config_settings = zero
        /\ config_nvs = [present |-> FALSE, data |-> zero]
        /\ config_call = [fn |-> NULL, null |-> FALSE, c |-> zero, err |-> NULL,
                          wrote |-> FALSE, bytes_written |-> 0,
                          before |-> zero, out |-> zero]

\* the initialiser of w_data, event callbacks registered by init_wifi; no
\* call made, no event handled
WifiStatic ==
    /\ w_data = [station_state |-> "STATION_STATE_DISCONNECTED",
                 logins_state |-> "LOGINS_STATE_NOT_SET"]
    /\ wifi_call = [fn |-> NULL, err |-> NULL, before |-> w_data,
                    broadcast |-> FALSE, requested |-> FALSE, handled |-> {}]

\* the state outside the list operations when only those are exercised
EnvIdle ==
    /\ thread = << >>
    /\ nvs = NULL
    /\ k_uptime = 0
    /\ task = NULL
    /\ ConfigStatic
    /\ WifiStatic

\* a call merge_temperature_lists(&src1, &src2, dest) about to be made by
\* the test's thread, no lock held
MergeCall(dest) ==
    /\ lock_count = [l \in DOMAIN lists |-> 0]
    /\ lock_owner = [l \in DOMAIN lists |-> NULL]
    /\ args = [src1 |-> "src1", src2 |-> "src2", dest |-> dest,
               thread |-> "main"]
    /\ before = [lists |-> lists, lock_count |-> lock_count]
    /\ EnvIdle
    /\ pc = "merge_temperature_lists"
    /\ ret = NULL
    /\ iterator = UninitIterator
    /\ sample = NullSample
    /\ index = 0
    /\ merged = << >>
    /\ dec = DecIdle
    /\ yielded = << >>

\* the call with a third list as destination
MergeIdle == MergeCall("dest")

Init ==
    /\ capacity \in 2..MaxCapacity
    /\ \E l1 \in InputLists(capacity), l2 \in InputLists(capacity) :
         lists = [src1 |-> l1, src2 |-> l2, dest |-> ZeroList(capacity)]
    /\ MergeIdle
    /\ interp = NoInterp
    /\ app = NoAppend

Next ==
    \/ merge_temperature_lists
    \/ merge_without_decimation_init
    \/ merge_without_decimation_loop
    \/ merge_with_decimation_init
    \/ merge_with_decimation_prev
    \/ merge_with_decimation_current
    \/ merge_with_decimation_emit
    \/ merge_with_decimation_shift
    \/ merge_with_decimation_copy

Spec == Init /\ [][Next]_vars

\* the time-ordered lists whose temperatures follow the ramp r
RampLists(n, r) ==
    {MkList(u, r, n) : u \in UNION {SortedUptimes(k) : k \in 0..n}}

\* the merge called with dest being src1, src2 or a third list; the two
\* sources follow different ramps, so that no sample of one is one of the other
InitAliased ==
    /\ capacity \in 2..MaxCapacity
    /\ \E l1 \in RampLists(capacity, <<160, 3>>),
          l2 \in RampLists(capacity, <<-40, -7>>) :
         lists = [src1 |-> l1, src2 |-> l2, dest |-> ZeroList(capacity)]
    /\ \E dest \in {"src1", "src2", "dest"} : MergeCall(dest)
    /\ interp = NoInterp
    /\ app = NoAppend

SpecAliased == InitAliased /\ [][Next]_vars

\* a list after a long run of the logger: the uptimes u counted in periods
\* of 24003 minutes (some 16 days), the temperatures on the ramp r
LongRunList(u, r, n) == MkList([i \in 1..Len(u) |-> 24003 * u[i]], r, n)

\* the merge of two such lists, one warming and one cooling by 699
\* sixteenths of a degree per sample
InitLongRun ==
    /\ capacity \in 2..MaxCapacity
    /\ \E u1 \in UNION {SortedUptimes(k) : k \in 0..capacity},
          u2 \in UNION {SortedUptimes(k) : k \in 0..capacity} :
         lists = [src1 |-> LongRunList(u1, <<0, 699>>, capacity),
                  src2 |-> LongRunList(u2, <<699, -699>>, capacity),
                  dest |-> ZeroList(capacity)]
    /\ MergeIdle
    /\ interp = NoInterp
    /\ app = NoAppend

SpecLongRun == InitLongRun /\ [][Next]_vars

(***************************************************************************)
(* The lists of the merge tests (test cases 1 to 4), run with the capacity *)
(* the overlap test expects.                                               *)
(***************************************************************************)
TestList(samples, n) ==
    [data |-> [i \in 1..n |-> IF i <= Len(samples) THEN samples[i] ELSE ZeroSample],
     length |-> Len(samples)]

Test1Src1 == <<temperature_sample_t(160, 10), temperature_sample_t(480, 20)>>
Test1Src2 == <<temperature_sample_t(800, 30), temperature_sample_t(1120, 40)>>
Test2Src1 == <<temperature_sample_t(160, 10), temperature_sample_t(800, 50)>>
Test2Src2 == <<temperature_sample_t(320, 20), temperature_sample_t(640, 30)>>
Test3Empty == << >>
Test3Src2 == <<temperature_sample_t(100, 1)>>
Test4Src1 == <<temperature_sample_t(160, 10), temperature_sample_t(320, 20),
               temperature_sample_t(480, 30)>>
Test4Src2 == <<temperature_sample_t(640, 40), temperature_sample_t(800, 50),
               temperature_sample_t(960, 60)>>

TestLists ==
    {Test1Src1, Test1Src2, Test2Src1, Test2Src2, Test3Empty, Test3Src2,
     Test4Src1, Test4Src2}

InitScenario ==
    /\ capacity = ScenarioCapacity
    /\ \E a \in TestLists, b \in TestLists :
         lists = [src1 |-> TestList(a, capacity), src2 |-> TestList(b, capacity),
                  dest |-> ZeroList(capacity)]
    /\ MergeIdle
    /\ interp = NoInterp
    /\ app = NoAppend

SpecScenario == InitScenario /\ [][Next]_vars

(***************************************************************************)
(* The merge on lists that need not be time-ordered (merge_temperature_    *)
(* lists does not check the order of its inputs).  The temperatures follow *)
(* the first ramp and the uptimes are 0, 1 or MaxTime, in any order.       *)
(* When the last uptimes lie before the first ones, end_uptime -           *)
(* start_uptime wraps and the targets of the grid leave the range of the   *)
(* samples: the scan then runs out of samples and decimation fails.        *)
(***************************************************************************)
AnyUptimes(k) == [1..k -> {0, 1, MaxTime}]

AnyLists(n) ==
    {MkList(u, <<160, 3>>, n) : u \in UNION {AnyUptimes(k) : k \in 0..n}}

InitUnordered ==
    /\ capacity \in 2..MaxCapacity
    /\ \E l1 \in AnyLists(capacity), l2 \in AnyLists(capacity) :
         lists = [src1 |-> l1, src2 |-> l2, dest |-> ZeroList(capacity)]
    /\ MergeIdle
    /\ interp = NoInterp
    /\ app = NoAppend

SpecUnordered == InitUnordered /\ [][Next]_vars

\* the call with any of its three pointers null, on such lists
InitAnyCall ==
    /\ capacity \in 2..MaxCapacity
    /\ \E l1 \in AnyLists(capacity), l2 \in AnyLists(capacity) :
         lists = [src1 |-> l1, src2 |-> l2, dest |-> ZeroList(capacity)]
    /\ lock_count = [l \in DOMAIN lists |-> 0]
    /\ lock_owner = [l \in DOMAIN lists |-> NULL]
    /\ \E src1 \in {NULL, "src1"}, src2 \in {NULL, "src2"}, dest \in {NULL, "dest"} :
         args = [src1 |-> src1, src2 |-> src2, dest |-> dest, thread |-> "main"]
    /\ before = [lists |-> lists, lock_count |-> lock_count]
    /\ EnvIdle
    /\ pc = "merge_temperature_lists"
    /\ ret = NULL
    /\ iterator = UninitIterator
    /\ sample = NullSample
    /\ index = 0
    /\ merged = << >>
    /\ dec = DecIdle
    /\ yielded = << >>
    /\ interp = NoInterp
    /\ app = NoAppend

SpecAnyCall == InitAnyCall /\ [][Next]_vars

\* the calling thread keeps running: no other context holds the locks, so
\* TRIPLE_LOCK returns and every statement of the call completes
SpecAnyCallLive == SpecAnyCall /\ WF_vars(Next)

(***************************************************************************)
(* interpolate as a pure function: the arguments are drawn in Init, the    *)
(* one action applies it.  For distinct uptimes the target is drawn from   *)
(* the closed interval between them (interpolation proper).                *)
(***************************************************************************)
InterpSamples ==
    {temperature_sample_t(v, u) : v \in (-MaxTemp)..MaxTemp, u \in 0..MaxTime}

InitInterpolate ==
    /\ capacity = MaxCapacity
    /\ lists = [src1 |-> ZeroList(capacity), src2 |-> ZeroList(capacity),
                dest |-> ZeroList(capacity)]
    /\ MergeIdle
    /\ \E a \in InterpSamples, b \in InterpSamples, u \in 0..MaxTime :
         /\ a.uptime # b.uptime =>
              MIN(a.uptime, b.uptime) <= u /\ u <= MAX(a.uptime, b.uptime)
         /\ interp = [NoInterp EXCEPT !.t1 = a, !.t2 = b, !.uptime = u]
    /\ app = NoAppend

interpolate_call ==
    /\ ~ interp.returned
    /\ interp' = [interp EXCEPT !.returned = TRUE,
                                !.result = interpolate(interp.t1, interp.t2,
                                                       interp.uptime)]
    /\ UNCHANGED <<envVars, capacity, lock_count, lock_owner, lists, mergeVars, app>>

NextInterpolate == interpolate_call

SpecInterpolate == InitInterpolate /\ [][NextInterpolate]_vars

(***************************************************************************)
(* One list under append_temperature_sample and reset_temperature_list.    *)
(* append does not look at the sample, so any sample may be appended.      *)
(***************************************************************************)
List == "list"

AppendSamples ==
    {temperature_sample_t(v, u) : v \in {-MaxTemp, MaxTemp}, u \in {0, MaxTime}}

InitAppend ==
    /\ capacity \in 2..MaxCapacity
    /\ lists = [list |-> ZeroList(capacity)]
    /\ MergeIdle
    /\ interp = NoInterp
    /\ app = NoAppend

append_call ==
    /\ \E s \in AppendSamples :
         LET r == append_temperature_sample(lists[List], s)
         IN  /\ lists' = [lists EXCEPT ![List] = r.list]
             /\ app' = [before |-> lists[List], sample |-> s, err |-> r.err]
    /\ UNCHANGED <<envVars, capacity, lock_count, lock_owner, mergeVars, interp>>

reset_call ==
    /\ lists' = [lists EXCEPT ![List] = reset_temperature_list(@)]
    /\ app' = NoAppend
    /\ UNCHANGED <<envVars, capacity, lock_count, lock_owner, mergeVars, interp>>

NextAppend == append_call \/ reset_call

SpecAppend == InitAppend /\ [][NextAppend]_vars

(***************************************************************************)
(* lock.h: execution contexts that take and release the locks of the       *)
(* shared lists through DOUBLE_LOCK / TRIPLE_LOCK and DOUBLE_UNLOCK /      *)
(* TRIPLE_UNLOCK.  A context is [pc, locks, next]: the k_mutex_lock (or    *)
(* k_mutex_unlock) calls the macro makes, in order, and the position of    *)
(* the next one.  Each call is one step; k_mutex_lock waits while the      *)
(* mutex is owned by another context.                                      *)
(***************************************************************************)
MaxContexts == 2

\* the contexts, named "1", "2", ...
Contexts == {ToString(i) : i \in 1..MaxContexts}

\* a context outside the lock macros; in a macro, args are its arguments as
\* passed, locks its k_mutex calls in order and next the call it is at
IdleThread == [pc |-> "idle", args |-> << >>, locks |-> << >>, next |-> 0]

\* the locks a context names in its macro call
Held(t) == {thread[t].locks[i] : i \in DOMAIN thread[t].locks}

\* DOUBLE_LOCK locking its arguments in the order they are passed
DOUBLE_LOCK_AsPassed(lock1, lock2) == <<lock1, lock2>>

\* DOUBLE_LOCK(lock1, lock2, K_FOREVER): the lower address is locked first
DOUBLE_LOCK(lock1, lock2) ==
    IF Address[lock1] < Address[lock2] THEN <<lock1, lock2>> ELSE <<lock2, lock1>>

\* DOUBLE_UNLOCK(lock1, lock2): the higher address is unlocked first
DOUBLE_UNLOCK(lock1, lock2) ==
    IF Address[lock1] < Address[lock2] THEN <<lock2, lock1>> ELSE <<lock1, lock2>>

\* the k_mutex_lock calls of TRIPLE_LOCK and the k_mutex_unlock calls of
\* TRIPLE_UNLOCK, in order
TripleLockOrder(lock1, lock2, lock3) == SortLocks(<<lock1, lock2, lock3>>)

\* TRIPLE_UNLOCK unlocking in the order in which TRIPLE_LOCK locks
TripleUnlockOrder_Ascending(lock1, lock2, lock3) ==
    SortLocks(<<lock1, lock2, lock3>>)

TripleUnlockOrder(lock1, lock2, lock3) ==
    LET locks == SortLocks(<<lock1, lock2, lock3>>)
    IN  <<locks[3], locks[2], locks[1]>>

\* a context enters DOUBLE_LOCK with two distinct locks, in either order
DOUBLE_LOCK_call(t) ==
    /\ thread[t].pc = "idle"
    /\ \E lock1 \in DOMAIN lists, lock2 \in DOMAIN lists :
         /\ lock1 # lock2
         /\ thread' = [thread EXCEPT ![t] = [pc |-> "locking",
                                             args |-> <<lock1, lock2>>,
                                             locks |-> DOUBLE_LOCK(lock1, lock2),
                                             next |-> 1]]
    /\ UNCHANGED <<config_settings, config_nvs, config_call, w_data, wifi_call,
                   args, before, nvs, k_uptime, task, capacity, lock_count,
                   lock_owner, lists, mergeVars, interp, app>>

\* a context enters TRIPLE_LOCK with three distinct locks, in any order
TRIPLE_LOCK_call(t) ==
    /\ thread[t].pc = "idle"
    /\ \E lock1 \in DOMAIN lists, lock2 \in DOMAIN lists, lock3 \in DOMAIN lists :
         /\ lock1 # lock2 /\ lock1 # lock3 /\ lock2 # lock3
         /\ thread' = [thread EXCEPT ![t] =
                         [pc |-> "locking",
                          args |-> <<lock1, lock2, lock3>>,
                          locks |-> TripleLockOrder(lock1, lock2, lock3),
                          next |-> 1]]
    /\ UNCHANGED <<config_settings, config_nvs, config_call, w_data, wifi_call,
                   args, before, nvs, k_uptime, task, capacity, lock_count,
                   lock_owner, lists, mergeVars, interp, app>>

\* the next k_mutex_lock(locks[i], K_FOREVER) of the macro returns
k_mutex_lock_step(t) ==
    /\ thread[t].pc = "locking"
    /\ LET l == thread[t].locks[thread[t].next]
       IN  /\ Acquirable(lock_count, lock_owner, l, t)
           /\ lock_count' = k_mutex_lock(lock_count, l)
           /\ lock_owner' = [lock_owner EXCEPT ![l] = t]
    /\ thread' = [thread EXCEPT ![t] =
                    IF @.next = Len(@.locks)
                    THEN [@ EXCEPT !.pc = "locked"]
                    ELSE [@ EXCEPT !.next = @ + 1]]
    /\ UNCHANGED <<config_settings, config_nvs, config_call, w_data, wifi_call,
                   args, before, nvs, k_uptime, task, capacity, lists, mergeVars,
                   interp, app>>

\* a context holding two locks enters DOUBLE_UNLOCK, arguments in either order
DOUBLE_UNLOCK_call(t) ==
    /\ thread[t].pc = "locked"
    /\ Len(thread[t].locks) = 2
    /\ \E lock1 \in Held(t), lock2 \in Held(t) :
         /\ lock1 # lock2
         /\ thread' = [thread EXCEPT ![t] = [pc |-> "unlocking",
                                             args |-> <<lock1, lock2>>,
                                             locks |-> DOUBLE_UNLOCK(lock1, lock2),
                                             next |-> 1]]
    /\ UNCHANGED <<config_settings, config_nvs, config_call, w_data, wifi_call,
                   args, before, nvs, k_uptime, task, capacity, lock_count,
                   lock_owner, lists, mergeVars, interp, app>>

\* a context holding three locks enters TRIPLE_UNLOCK, arguments in any order
TRIPLE_UNLOCK_call(t) ==
    /\ thread[t].pc = "locked"
    /\ Len(thread[t].locks) = 3
    /\ \E lock1 \in Held(t), lock2 \in Held(t), lock3 \in Held(t) :
         /\ lock1 # lock2 /\ lock1 # lock3 /\ lock2 # lock3
         /\ thread' = [thread EXCEPT ![t] =
                         [pc |-> "unlocking",
                          args |-> <<lock1, lock2, lock3>>,
                          locks |-> TripleUnlockOrder(lock1, lock2, lock3),
                          next |-> 1]]
    /\ UNCHANGED <<config_settings, config_nvs, config_call, w_data, wifi_call,
                   args, before, nvs, k_uptime, task, capacity, lock_count,
                   lock_owner, lists, mergeVars, interp, app>>

\* the next k_mutex_unlock(locks[i]) of the macro
k_mutex_unlock_step(t) ==
    /\ thread[t].pc = "unlocking"
    /\ LET l == thread[t].locks[thread[t].next]
       IN  /\ lock_count' = k_mutex_unlock(lock_count, l)
           /\ lock_owner' = OwnerAfter(lock_owner, lock_count', t)
    /\ thread' = [thread EXCEPT ![t] =
                    IF @.next = Len(@.locks)
                    THEN IdleThread
                    ELSE [@ EXCEPT !.next = @ + 1]]
    /\ UNCHANGED <<config_settings, config_nvs, config_call, w_data, wifi_call,
                   args, before, nvs, k_uptime, task, capacity, lists, mergeVars,
                   interp, app>>

\* no merge_temperature_lists call is in progress
NoMerge ==
    /\ pc = "idle"
    /\ ret = NULL
    /\ iterator = UninitIterator
    /\ sample = NullSample
    /\ index = 0
    /\ merged = << >>
    /\ dec = DecIdle
    /\ yielded = << >>
    /\ args = [src1 |-> NULL, src2 |-> NULL, dest |-> NULL, thread |-> NULL]
    /\ before = [lists |-> lists, lock_count |-> lock_count]

InitLocks ==
    /\ capacity = MaxCapacity
    /\ lists = [src1 |-> ZeroList(capacity), src2 |-> ZeroList(capacity),
                dest |-> ZeroList(capacity)]
    /\ lock_count = [l \in DOMAIN lists |-> 0]
    /\ lock_owner = [l \in DOMAIN lists |-> NULL]
    /\ thread = [t \in Contexts |-> IdleThread]
    /\ NoMerge
    /\ nvs = NULL
    /\ k_uptime = 0
    /\ task = NULL
    /\ ConfigStatic
    /\ WifiStatic
    /\ interp = NoInterp
    /\ app = NoAppend

NextLocks ==
    \/ \E t \in Contexts : DOUBLE_LOCK_call(t)
    \/ \E t \in Contexts : TRIPLE_LOCK_call(t)
    \/ \E t \in Contexts : k_mutex_lock_step(t)
    \/ \E t \in Contexts : DOUBLE_UNLOCK_call(t)
    \/ \E t \in Contexts : TRIPLE_UNLOCK_call(t)
    \/ \E t \in Contexts : k_mutex_unlock_step(t)

SpecLocks == InitLocks /\ [][NextLocks]_vars

\* every holder eventually releases (it enters the unlock macro and each
\* k_mutex_unlock returns), and a waiter is not passed over forever:
\* k_mutex_unlock hands the mutex to a waiting thread
SpecLocksFair ==
    /\ SpecLocks
    /\ \A t \in Contexts :
         /\ WF_vars(DOUBLE_UNLOCK_call(t) \/ TRIPLE_UNLOCK_call(t))
         /\ WF_vars(k_mutex_unlock_step(t))
         /\ SF_vars(k_mutex_lock_step(t))

(***************************************************************************)
(* The sampling task: t_data (RAM list, scratch list), the NVS record, the *)
(* sensor, the delayable work item and its handler perform_sampling_task,  *)
(* which runs on the system work queue and calls merge_temperature_lists   *)
(* with the scratch list as src2 and as dest.  Next to it a reader takes   *)
(* the lock of one list, copies the list and releases the lock.            *)
(***************************************************************************)
Ram == "temperature_list"
Scratch == "scratch_temperature_list"

WorkQueue == "workqueue"
Reader == "reader"

K_NO_WAIT == "K_NO_WAIT"
K_SECONDS_30 == "K_SECONDS(30)"

\* the bytes of a list up to offsetof(struct temperature_list_t, lock)
Stored(t) == [data |-> t.data, length |-> t.length]

\* the list held by the NVS record (the record is absent until first written)
Persisted == IF nvs.present THEN nvs.list ELSE ZeroList(capacity)

\* errno.h
ENOENT == 2
EIO == 5

\* a call the handler made: the function and the error it returned
Step(fn, err) == [fn |-> fn, err |-> err]

\* no NVS call of the running statement to report
NoIo == [op |-> NULL, rc |-> 0]

\* t_data before init_temperature_logger: handler not running, work item not
\* scheduled; steps lists the calls the running handler has made and
\* io is the NVS call of its last statement with the count it returned
NoTask ==
    [pc |-> "idle", err |-> NULL, sample |-> ZeroSample, pending |-> NULL,
     reschedules |-> 0, init |-> NULL,
     start |-> [lists |-> NULL, persisted |-> NULL],
     steps |-> << >>, io |-> NoIo]

\* the reading of the sensor at uptime u: -3.25 degrees at boot, rising by
\* 1.5 degrees per minute; val1 is the whole part, val2 the millionths
SensorValue(u) ==
    LET micro == -3250000 + 1500000 * u
    IN  [val1 |-> TruncDiv(micro, 1000000),
         val2 |-> micro - TruncDiv(micro, 1000000) * 1000000]

\* sensor_value_to_temperature: (whole + micro / 1e6) * 16, truncated by the
\* cast to temperature_t (the readings used are exact in binary floating point)
sensor_value_to_temperature(v) ==
    ToInt16(TruncDiv((v.val1 * 1000000 + v.val2) * 16, 1000000))

\* init_temperature_logger scheduling the work item before it looks at the
\* sensor
init_temperature_logger_ScheduleFirst ==
    /\ task.init = NULL
    /\ \E temperature_sensor \in {NULL, "not ready", "ready"} :
         task' = IF temperature_sensor = "ready"
                 THEN [task EXCEPT !.init = E_SUCCESS, !.pending = K_NO_WAIT]
                 ELSE [task EXCEPT !.init = E_ERROR, !.pending = K_NO_WAIT]
    /\ UNCHANGED <<config_settings, config_nvs, config_call, w_data, wifi_call,
                   capacity, lists, lock_count, lock_owner, mergeVars, interp, app,
                   args, before, thread, nvs, k_uptime>>

\* init_temperature_logger: sensor missing or not ready -> E_ERROR; otherwise
\* k_work_reschedule(&t_data.sampling_task, K_NO_WAIT) and E_SUCCESS
init_temperature_logger ==
    /\ task.init = NULL
    /\ \E temperature_sensor \in {NULL, "not ready", "ready"} :
         task' = IF temperature_sensor = "ready"
                 THEN [task EXCEPT !.init = E_SUCCESS, !.pending = K_NO_WAIT]
                 ELSE [task EXCEPT !.init = E_ERROR]
    /\ UNCHANGED <<config_settings, config_nvs, config_call, w_data, wifi_call,
                   capacity, lists, lock_count, lock_owner, mergeVars, interp, app,
                   args, before, thread, nvs, k_uptime>>

\* the delay of the work item has expired and the work queue calls the
\* handler, which enters DOUBLE_LOCK(&temperature_list.lock,
\* &scratch_temperature_list.lock, K_FOREVER)
perform_sampling_task ==
    /\ task.pc = "idle"
    /\ task.pending # NULL
    /\ task' = [task EXCEPT !.pc = "DOUBLE_LOCK", !.pending = NULL,
                            !.reschedules = 0, !.err = NULL,
                            !.sample = ZeroSample,
                            !.steps = << >>, !.io = NoIo,
                            !.start = [lists |-> lists, persisted |-> Persisted]]
    /\ thread' = [thread EXCEPT ![WorkQueue] =
                    [pc |-> "locking", args |-> <<Ram, Scratch>>,
                     locks |-> DOUBLE_LOCK(Ram, Scratch),
                     next |-> 1]]
    /\ UNCHANGED <<config_settings, config_nvs, config_call, w_data, wifi_call,
                   capacity, lists, lock_count, lock_owner, mergeVars, interp, app,
                   args, before, nvs, k_uptime>>

\* temperature_list_is_full testing for more than N samples
temperature_list_is_full_Over(t) == t.length > capacity

\* temperature_list_is_full(t)
temperature_list_is_full(t) == t.length = capacity

\* the handler going on without waiting for DOUBLE_LOCK to return
sampling_is_full_NoWait ==
    /\ task.pc = "DOUBLE_LOCK"
    /\ task' = [task EXCEPT !.pc = IF lists[Ram].length = capacity
                                   THEN "load_temperature_list"
                                   ELSE "get_temperature_sample"]
    /\ UNCHANGED <<config_settings, config_nvs, config_call, w_data, wifi_call,
                   capacity, lists, lock_count, lock_owner, mergeVars, interp, app,
                   args, before, thread, nvs, k_uptime>>

\* DOUBLE_LOCK has returned: if (temperature_list_is_full(&temperature_list))
sampling_is_full ==
    /\ task.pc = "DOUBLE_LOCK"
    /\ thread[WorkQueue].pc = "locked"
    /\ task' = [task EXCEPT !.pc = IF temperature_list_is_full(lists[Ram])
                                   THEN "load_temperature_list"
                                   ELSE "get_temperature_sample"]
    /\ UNCHANGED <<config_settings, config_nvs, config_call, w_data, wifi_call,
                   capacity, lists, lock_count, lock_owner, mergeVars, interp, app,
                   args, before, thread, nvs, k_uptime>>

\* load_temperature_list after nvs_read returned bytes_read: the key is
\* absent (reset and create), the read failed, or the record was read
load_temperature_list(bytes_read, size) ==
    IF bytes_read = -ENOENT THEN E_SUCCESS
    ELSE IF bytes_read # size THEN E_ERROR
    ELSE E_SUCCESS

\* the size of the record, in samples plus one for the length field
RecordSize == capacity + 1

\* what nvs_read can return: the size of the record when the key exists,
\* -ENOENT when it does not, or a failure (an error code or another count;
\* the store holds only records of this size, so nothing is delivered then)
NvsReadResults ==
    (IF nvs.present THEN {RecordSize} ELSE {-ENOENT})
        \cup {-EIO, 0, RecordSize - 1, RecordSize + 1}

\* the handler going on to the merge whatever load_temperature_list returned
sampling_load_GoesOn ==
    /\ task.pc = "load_temperature_list"
    /\ \E bytes_read \in NvsReadResults :
         LET err == load_temperature_list(bytes_read, RecordSize)
         IN  /\ task' = [task EXCEPT
                           !.err = err,
                           !.steps = Append(@, Step("load_temperature_list", err)),
                           !.io = [op |-> "nvs_read", rc |-> bytes_read],
                           !.pc = "merge_temperature_lists"]
             /\ lists' = IF bytes_read = -ENOENT
                         THEN [lists EXCEPT ![Scratch] = reset_temperature_list(@)]
                         ELSE IF bytes_read = RecordSize
                         THEN [lists EXCEPT ![Scratch] = nvs.list]
                         ELSE lists
             /\ IF bytes_read = -ENOENT
                THEN \E bytes_written \in {RecordSize, -EIO} :
                       nvs' = IF bytes_written = RecordSize
                              THEN [present |-> TRUE,
                                    list |-> Stored(lists'[Scratch])]
                              ELSE nvs
                ELSE UNCHANGED nvs
    /\ UNCHANGED <<config_settings, config_nvs, config_call, w_data, wifi_call,
                   capacity, lock_count, lock_owner, mergeVars, interp, app,
                   args, before, thread, k_uptime>>

\* err = load_temperature_list(&scratch_temperature_list): on -ENOENT the
\* list is reset and nvs_write is called, its result ignored
sampling_load ==
    /\ task.pc = "load_temperature_list"
    /\ \E bytes_read \in NvsReadResults :
         LET err == load_temperature_list(bytes_read, RecordSize)
         IN  /\ task' = [task EXCEPT
                           !.err = err,
                           !.steps = Append(@, Step("load_temperature_list", err)),
                           !.io = [op |-> "nvs_read", rc |-> bytes_read],
                           !.pc = IF err = E_SUCCESS THEN "merge_temperature_lists"
                                  ELSE "reschedule"]
             /\ lists' = IF bytes_read = -ENOENT
                         THEN [lists EXCEPT ![Scratch] = reset_temperature_list(@)]
                         ELSE IF bytes_read = RecordSize
                         THEN [lists EXCEPT ![Scratch] = nvs.list]
                         ELSE lists
             /\ IF bytes_read = -ENOENT
                THEN \E bytes_written \in {RecordSize, -EIO} :
                       nvs' = IF bytes_written = RecordSize
                              THEN [present |-> TRUE,
                                    list |-> Stored(lists'[Scratch])]
                              ELSE nvs
                ELSE UNCHANGED nvs
    /\ UNCHANGED <<config_settings, config_nvs, config_call, w_data, wifi_call,
                   capacity, lock_count, lock_owner, mergeVars, interp, app,
                   args, before, thread, k_uptime>>

\* the merge called with the RAM list as destination
sampling_merge_call_DestRam ==
    /\ task.pc = "merge_temperature_lists"
    /\ pc = "idle"
    /\ args' = [src1 |-> Ram, src2 |-> Scratch, dest |-> Ram,
                thread |-> WorkQueue]
    /\ before' = [lists |-> lists, lock_count |-> lock_count]
    /\ pc' = "merge_temperature_lists"
    /\ task' = [task EXCEPT !.pc = "merge", !.io = NoIo]
    /\ UNCHANGED <<config_settings, config_nvs, config_call, w_data, wifi_call,
                   capacity, lists, lock_count, lock_owner, ret, iterator, sample,
                   index, merged, dec, yielded, interp, app, thread, nvs, k_uptime>>

\* merge_temperature_lists(&temperature_list, &scratch_temperature_list,
\* &scratch_temperature_list) is entered
sampling_merge_call ==
    /\ task.pc = "merge_temperature_lists"
    /\ pc = "idle"
    /\ args' = [src1 |-> Ram, src2 |-> Scratch, dest |-> Scratch,
                thread |-> WorkQueue]
    /\ before' = [lists |-> lists, lock_count |-> lock_count]
    /\ pc' = "merge_temperature_lists"
    /\ task' = [task EXCEPT !.pc = "merge", !.io = NoIo]
    /\ UNCHANGED <<config_settings, config_nvs, config_call, w_data, wifi_call,
                   capacity, lists, lock_count, lock_owner, ret, iterator, sample,
                   index, merged, dec, yielded, interp, app, thread, nvs, k_uptime>>

\* err = the value merge_temperature_lists returned; its frame is gone
sampling_merge_return ==
    /\ task.pc = "merge"
    /\ pc = "done"
    /\ task' = [task EXCEPT !.err = ret,
                            !.steps = Append(@, Step("merge_temperature_lists", ret)),
                            !.pc = IF ret = E_SUCCESS THEN "store_temperature_list"
                                   ELSE "reschedule"]
    /\ pc' = "idle"
    /\ ret' = NULL
    /\ iterator' = UninitIterator
    /\ sample' = NullSample
    /\ index' = 0
    /\ merged' = << >>
    /\ dec' = DecIdle
    /\ yielded' = << >>
    /\ args' = [src1 |-> NULL, src2 |-> NULL, dest |-> NULL, thread |-> NULL]
    /\ UNCHANGED <<config_settings, config_nvs, config_call, w_data, wifi_call,
                   capacity, lists, lock_count, lock_owner, interp, app,
                   before, thread, nvs, k_uptime>>

\* store_temperature_list taking a count of 0 for a failure
store_temperature_list_SizeOnly(bytes_written, size) ==
    IF bytes_written = size THEN E_SUCCESS ELSE E_ERROR

\* store_temperature_list: success iff nvs_write wrote the whole record or
\* nothing (the record already had this content)
store_temperature_list(bytes_written, size) ==
    IF bytes_written = size \/ bytes_written = 0 THEN E_SUCCESS ELSE E_ERROR

\* what nvs_write can return for the list t: the size when the record is
\* written, 0 when the stored record already has this content, or a failure
NvsWriteResults(t) ==
    (IF nvs.present /\ nvs.list = Stored(t) THEN {0} ELSE {RecordSize})
        \cup {-EIO, RecordSize - 1, RecordSize + 1}

\* the handler going on to the reset whatever store_temperature_list returned
sampling_store_GoesOn ==
    /\ task.pc = "store_temperature_list"
    /\ \E bytes_written \in NvsWriteResults(lists[Scratch]) :
         /\ nvs' = IF bytes_written = RecordSize
                   THEN [present |-> TRUE, list |-> Stored(lists[Scratch])]
                   ELSE nvs
         /\ LET err == store_temperature_list(bytes_written, RecordSize)
            IN  task' = [task EXCEPT
                           !.err = err,
                           !.steps = Append(@, Step("store_temperature_list", err)),
                           !.io = [op |-> "nvs_write", rc |-> bytes_written],
                           !.pc = "reset_temperature_list"]
    /\ UNCHANGED <<config_settings, config_nvs, config_call, w_data, wifi_call,
                   capacity, lists, lock_count, lock_owner, mergeVars, interp, app,
                   args, before, thread, k_uptime>>

\* err = store_temperature_list(&scratch_temperature_list)
sampling_store ==
    /\ task.pc = "store_temperature_list"
    /\ \E bytes_written \in NvsWriteResults(lists[Scratch]) :
         /\ nvs' = IF bytes_written = RecordSize
                   THEN [present |-> TRUE, list |-> Stored(lists[Scratch])]
                   ELSE nvs
         /\ LET err == store_temperature_list(bytes_written, RecordSize)
            IN  task' = [task EXCEPT
                           !.err = err,
                           !.steps = Append(@, Step("store_temperature_list", err)),
                           !.io = [op |-> "nvs_write", rc |-> bytes_written],
                           !.pc = IF err = E_SUCCESS
                                  THEN "reset_temperature_list"
                                  ELSE "reschedule"]
    /\ UNCHANGED <<config_settings, config_nvs, config_call, w_data, wifi_call,
                   capacity, lists, lock_count, lock_owner, mergeVars, interp, app,
                   args, before, thread, k_uptime>>

\* err = reset_temperature_list(&temperature_list)
sampling_reset ==
    /\ task.pc = "reset_temperature_list"
    /\ lists' = [lists EXCEPT ![Ram] = reset_temperature_list(@)]
    /\ task' = [task EXCEPT !.err = E_SUCCESS, !.io = NoIo,
                            !.steps = Append(@, Step("reset_temperature_list", E_SUCCESS)),
                            !.pc = "get_temperature_sample"]
    /\ UNCHANGED <<config_settings, config_nvs, config_call, w_data, wifi_call,
                   capacity, lock_count, lock_owner, mergeVars, interp, app,
                   args, before, thread, nvs, k_uptime>>

\* err = get_temperature_sample(&sample): the uptime is stored before the
\* result of sensor_sample_fetch is tested; a failing fetch or channel read
\* gives E_ERROR
sampling_get_temperature_sample ==
    /\ task.pc = "get_temperature_sample"
    /\ \E u \in k_uptime..MaxTime :
         /\ k_uptime' = u
         /\ \/ task' = [task EXCEPT
                          !.sample = temperature_sample_t(
                              sensor_value_to_temperature(SensorValue(u)), u),
                          !.err = E_SUCCESS,
                          !.steps = Append(@, Step("get_temperature_sample",
                                                   E_SUCCESS)),
                          !.pc = "append_temperature_sample"]
            \/ task' = [task EXCEPT !.sample.uptime = u,
                                    !.err = E_ERROR,
                                    !.steps = Append(@, Step("get_temperature_sample",
                                                             E_ERROR)),
                                    !.pc = "reschedule"]
    /\ UNCHANGED <<config_settings, config_nvs, config_call, w_data, wifi_call,
                   capacity, lists, lock_count, lock_owner, mergeVars, interp, app,
                   args, before, thread, nvs>>

\* err = append_temperature_sample(&temperature_list, sample)
sampling_append ==
    /\ task.pc = "append_temperature_sample"
    /\ LET r == append_temperature_sample(lists[Ram], task.sample)
       IN  /\ lists' = [lists EXCEPT ![Ram] = r.list]
           /\ task' = [task EXCEPT !.err = r.err,
                                   !.steps = Append(@, Step("append_temperature_sample",
                                                            r.err)),
                                   !.pc = "reschedule"]
    /\ UNCHANGED <<config_settings, config_nvs, config_call, w_data, wifi_call,
                   capacity, lock_count, lock_owner, mergeVars, interp, app,
                   args, before, thread, nvs, k_uptime>>

\* the reschedule path leaving without DOUBLE_UNLOCK after a failed cycle
sampling_reschedule_NoUnlockOnError ==
    /\ task.pc = "reschedule"
    /\ task' = [task EXCEPT !.pending = K_SECONDS_30,
                            !.reschedules = @ + 1,
                            !.io = NoIo,
                            !.pc = "DOUBLE_UNLOCK"]
    /\ thread' = [thread EXCEPT ![WorkQueue] =
                    IF task.err = E_SUCCESS
                    THEN [pc |-> "unlocking", args |-> <<Ram, Scratch>>,
                          locks |-> DOUBLE_UNLOCK(Ram, Scratch),
                          next |-> 1]
                    ELSE IdleThread]
    /\ UNCHANGED <<config_settings, config_nvs, config_call, w_data, wifi_call,
                   capacity, lists, lock_count, lock_owner, mergeVars, interp, app,
                   args, before, nvs, k_uptime>>

\* the handler returning without k_work_reschedule after a failed cycle
sampling_reschedule_OnSuccessOnly ==
    /\ task.pc = "reschedule"
    /\ task' = [task EXCEPT
                  !.pending = IF task.err = E_SUCCESS THEN K_SECONDS_30 ELSE @,
                  !.reschedules = IF task.err = E_SUCCESS THEN @ + 1 ELSE @,
                  !.io = NoIo,
                  !.pc = "DOUBLE_UNLOCK"]
    /\ thread' = [thread EXCEPT ![WorkQueue] =
                    [pc |-> "unlocking", args |-> <<Ram, Scratch>>,
                     locks |-> DOUBLE_UNLOCK(Ram, Scratch),
                     next |-> 1]]
    /\ UNCHANGED <<config_settings, config_nvs, config_call, w_data, wifi_call,
                   capacity, lists, lock_count, lock_owner, mergeVars, interp, app,
                   args, before, nvs, k_uptime>>

\* reschedule: k_work_reschedule(&sampling_task, K_SECONDS(30)), then the
\* handler enters DOUBLE_UNLOCK
sampling_reschedule ==
    /\ task.pc = "reschedule"
    /\ task' = [task EXCEPT !.pending = K_SECONDS_30,
                            !.reschedules = @ + 1,
                            !.io = NoIo,
                            !.pc = "DOUBLE_UNLOCK"]
    /\ thread' = [thread EXCEPT ![WorkQueue] =
                    [pc |-> "unlocking", args |-> <<Ram, Scratch>>,
                     locks |-> DOUBLE_UNLOCK(Ram, Scratch),
                     next |-> 1]]
    /\ UNCHANGED <<config_settings, config_nvs, config_call, w_data, wifi_call,
                   capacity, lists, lock_count, lock_owner, mergeVars, interp, app,
                   args, before, nvs, k_uptime>>

\* DOUBLE_UNLOCK has returned and so does the handler
sampling_return ==
    /\ task.pc = "DOUBLE_UNLOCK"
    /\ thread[WorkQueue].pc = "idle"
    /\ task' = [task EXCEPT !.pc = "idle", !.steps = << >>,
                            !.start = [lists |-> NULL, persisted |-> NULL]]
    /\ UNCHANGED <<config_settings, config_nvs, config_call, w_data, wifi_call,
                   capacity, lists, lock_count, lock_owner, mergeVars, interp, app,
                   args, before, thread, nvs, k_uptime>>

\* the reader asks for the lock of one list
reader_lock ==
    /\ thread[Reader].pc = "idle"
    /\ \E l \in {Ram, Scratch} :
         thread' = [thread EXCEPT ![Reader] =
                      [pc |-> "locking", args |-> <<l>>, locks |-> <<l>>, next |-> 1]]
    /\ UNCHANGED <<config_settings, config_nvs, config_call, w_data, wifi_call,
                   capacity, lists, lock_count, lock_owner, mergeVars, interp, app,
                   args, before, nvs, k_uptime, task>>

\* the reader has copied the list and releases the lock
reader_unlock ==
    /\ thread[Reader].pc = "locked"
    /\ thread' = [thread EXCEPT ![Reader] = [@ EXCEPT !.pc = "unlocking", !.next = 1]]
    /\ UNCHANGED <<config_settings, config_nvs, config_call, w_data, wifi_call,
                   capacity, lists, lock_count, lock_owner, mergeVars, interp, app,
                   args, before, nvs, k_uptime, task>>

\* the board restarts between two runs of the handler: RAM, the mutexes, the
\* work item and the uptime clock are as at the first boot, the NVS record
\* is kept (a restart during a run leaves the same state, the record being
\* all that survives)
reboot ==
    /\ task.pc = "idle"
    /\ task.init # NULL
    /\ pc = "idle"
    /\ nvs.present
    /\ lists' = [l \in DOMAIN lists |-> ZeroList(capacity)]
    /\ lock_count' = [l \in DOMAIN lists |-> 0]
    /\ lock_owner' = [l \in DOMAIN lists |-> NULL]
    /\ thread' = [t \in DOMAIN thread |-> IdleThread]
    /\ before' = [lists |-> lists', lock_count |-> lock_count']
    /\ k_uptime' = 0
    /\ task' = NoTask
    /\ UNCHANGED <<config_settings, config_nvs, config_call, w_data, wifi_call,
                   capacity, mergeVars, interp, app, args, nvs>>

\* t_data as initialised statically, nothing stored in NVS yet, with the
\* contexts ctxs
SamplingBoot(ctxs) ==
    /\ lists = [temperature_list |-> ZeroList(capacity),
                scratch_temperature_list |-> ZeroList(capacity)]
    /\ lock_count = [l \in DOMAIN lists |-> 0]
    /\ lock_owner = [l \in DOMAIN lists |-> NULL]
    /\ thread = [t \in ctxs |-> IdleThread]
    /\ NoMerge
    /\ nvs = [present |-> FALSE, list |-> ZeroList(capacity)]
    /\ k_uptime = 0
    /\ task = NoTask
    /\ ConfigStatic
    /\ WifiStatic
    /\ interp = NoInterp
    /\ app = NoAppend

InitSampling ==
    /\ capacity \in 2..MaxCapacity
    /\ SamplingBoot({WorkQueue})

\* the steps of one boot
NextBoot ==
    \/ init_temperature_logger
    \/ perform_sampling_task
    \/ \E t \in DOMAIN thread : k_mutex_lock_step(t)
    \/ sampling_is_full
    \/ sampling_load
    \/ sampling_merge_call
    \/ Next
    \/ sampling_merge_return
    \/ sampling_store
    \/ sampling_reset
    \/ sampling_get_temperature_sample
    \/ sampling_append
    \/ sampling_reschedule
    \/ \E t \in DOMAIN thread : k_mutex_unlock_step(t)
    \/ sampling_return

NextSampling ==
    \/ NextBoot
    \/ reboot

SpecSampling == InitSampling /\ [][NextSampling]_vars

\* one boot in which the work queue thread is scheduled whenever it can run:
\* an expired work item is handed to its handler, k_mutex_lock on a free
\* mutex returns and each statement of the handler completes
SpecSamplingLive == InitSampling /\ [][NextBoot]_vars /\ WF_vars(NextBoot)

\* the sampling task next to a reader, during one boot
InitReader ==
    /\ capacity \in 2..MaxCapacity
    /\ SamplingBoot({WorkQueue, Reader})

NextReader ==
    \/ NextBoot
    \/ reader_lock
    \/ reader_unlock

SpecReader == InitReader /\ [][NextReader]_vars

(***************************************************************************)
(* The merge iterator on its own: init_merge_iterator over two time-ordered *)
(* lists, then merge_iterate called again and again, also after it has     *)
(* returned E_END_OF_ITER.                                                 *)
(***************************************************************************)
MaxExhaustedCalls == 2

InitIterator ==
    /\ capacity \in 2..MaxCapacity
    /\ \E l1 \in InputLists(capacity), l2 \in InputLists(capacity) :
         lists = [src1 |-> l1, src2 |-> l2, dest |-> ZeroList(capacity)]
    /\ MergeIdle
    /\ interp = NoInterp
    /\ app = NoAppend

\* init_merge_iterator(&iterator, &src1, &src2)
init_merge_iterator_call ==
    /\ pc = "merge_temperature_lists"
    /\ iterator' = init_merge_iterator(iterator, Src1, Src2, lists)
    /\ ret' = E_SUCCESS
    /\ pc' = "merge_iterate"
    /\ UNCHANGED <<envVars, capacity, lists, lock_count, lock_owner, sample, index,
                   merged, dec, yielded, interp, app>>

\* err = merge_iterate(&iterator, &sample); index counts the calls that
\* returned E_END_OF_ITER
merge_iterate_call ==
    /\ pc = "merge_iterate"
    /\ index < MaxExhaustedCalls
    /\ LET r == merge_iterate(iterator, sample, lists)
       IN  /\ iterator' = r.m
           /\ sample' = r.sample
           /\ ret' = r.err
           /\ yielded' = IF r.err = E_SUCCESS THEN Append(yielded, r.sample)
                         ELSE yielded
           /\ index' = IF r.err = E_END_OF_ITER THEN index + 1 ELSE index
    /\ UNCHANGED <<envVars, capacity, lists, lock_count, lock_owner, pc, merged, dec,
                   interp, app>>

NextIterator ==
    \/ init_merge_iterator_call
    \/ merge_iterate_call

SpecIterator == InitIterator /\ [][NextIterator]_vars

(***************************************************************************)
(* The configuration store (src/unnamed/part_001:470-636).  Each function  *)
(* runs under config_settings_mutex or touches only its argument, so a     *)
(* call is one step.  config_call records the call: the struct *c on entry *)
(* (c) and on return (out), whether nvs_write was called and what it       *)
(* returned, and config_settings before the call.                          *)
(***************************************************************************)
RESET_WIFI_SSID_VALUE == 255

\* is_printable_ascii_string(buffer, sizeof buffer): a NUL is met before any
\* byte outside 32..126 and before the end of the buffer
is_printable_ascii_string(buffer) ==
    \E i \in 1..Len(buffer) :
        /\ buffer[i] = 0
        /\ \A j \in 1..(i - 1) : buffer[j] >= 32 /\ buffer[j] <= 126

validate_wifi_ssid_and_password(c) ==
    LET ssid_reset == c.wifi_ssid[1] = RESET_WIFI_SSID_VALUE
        password_reset == c.wifi_password[1] = RESET_WIFI_SSID_VALUE
        \* strlen of a buffer known to hold a NUL
        password_length ==
            CHOOSE n \in 0..Len(c.wifi_password) :
                /\ c.wifi_password[n + 1] = 0
                /\ \A j \in 1..n : c.wifi_password[j] # 0
    IN  IF ssid_reset /\ password_reset THEN TRUE
        ELSE IF ssid_reset \/ password_reset THEN FALSE
        ELSE IF ~is_printable_ascii_string(c.wifi_ssid) THEN FALSE
        ELSE IF ~is_printable_ascii_string(c.wifi_password) THEN FALSE
        ELSE IF password_length # 0 /\ password_length < WIFI_PASSWORD_MIN_LENGTH
             THEN FALSE
        ELSE TRUE

\* the struct after reset_config_settings: both buffers zeroed, first bytes
\* set to the reset value
reset_config_settings ==
    [wifi_ssid |-> [i \in 1..(WIFI_SSID_MAX_LENGTH + 1) |->
                        IF i = 1 THEN RESET_WIFI_SSID_VALUE ELSE 0],
     wifi_password |-> [i \in 1..(WIFI_PASSWORD_MAX_LENGTH + 1) |->
                        IF i = 1 THEN RESET_WIFI_SSID_VALUE ELSE 0]]

\* the structs callers pass: in each buffer a text of n letters 'A' (n up
\* to the buffer size, the longest one unterminated), the reset value, a
\* control character, or a text followed by a stray byte after its NUL
ConfigInputs ==
    LET text(n, size) == [i \in 1..size |-> IF i <= n THEN 65 ELSE 0]
        lead(b, size) == [i \in 1..size |-> IF i = 1 THEN b ELSE 0]
        stray(size) == [i \in 1..size |-> IF i = 2 THEN 0 ELSE 65]
        buffers(size) ==
            {text(n, size) : n \in 0..size}
                \cup {lead(RESET_WIFI_SSID_VALUE, size), lead(31, size), stray(size)}
    IN  [wifi_ssid : buffers(WIFI_SSID_MAX_LENGTH + 1),
         wifi_password : buffers(WIFI_PASSWORD_MAX_LENGTH + 1)]

\* boot: init_config_settings -> load_main_config_settings.  nvs_read fills
\* config_settings; -ENOENT resets it and writes the reset struct, the
\* result of that nvs_write discarded; any other count than the size
\* resets it and reports E_ERROR
init_config_settings ==
    LET size == Len(config_settings.wifi_ssid) + Len(config_settings.wifi_password)
    IN  \E bytes_read \in (IF config_nvs.present THEN {size} ELSE {-ENOENT})
                            \cup {-EIO, size - 1, size + 1} :
          /\ IF bytes_read = -ENOENT
             THEN /\ config_settings' = reset_config_settings
                  /\ \E bytes_written \in {size, -EIO} :
                       /\ config_nvs' = IF bytes_written = size
                                        THEN [present |-> TRUE,
                                              data |-> reset_config_settings]
                                        ELSE config_nvs
                       /\ config_call' =
                            [fn |-> "init_config_settings", null |-> FALSE,
                             c |-> config_call.c, err |-> E_SUCCESS,
                             wrote |-> TRUE, bytes_written |-> bytes_written,
                             before |-> config_settings, out |-> config_call.out]
             ELSE /\ config_settings' = IF bytes_read = size THEN config_nvs.data
                                        ELSE reset_config_settings
                  /\ config_call' =
                       [fn |-> "init_config_settings", null |-> FALSE,
                        c |-> config_call.c,
                        err |-> IF bytes_read = size THEN E_SUCCESS ELSE E_ERROR,
                        wrote |-> FALSE, bytes_written |-> 0,
                        before |-> config_settings, out |-> config_call.out]
                  /\ UNCHANGED config_nvs
          /\ UNCHANGED <<capacity, lists, lock_count, lock_owner, mergeVars, interp,
                         app, args, before, thread, nvs, k_uptime, task, w_data,
                         wifi_call>>

\* load_config_settings(c): memcpy of config_settings into *c (a struct
\* the caller has reset), nothing for a null c
load_config_settings ==
    /\ \E null \in BOOLEAN :
         config_call' =
             [fn |-> "load_config_settings", null |-> null,
              c |-> reset_config_settings, err |-> NULL, wrote |-> FALSE,
              bytes_written |-> 0, before |-> config_settings,
              out |-> IF null THEN reset_config_settings ELSE config_settings]
    /\ UNCHANGED <<capacity, lists, lock_count, lock_owner, mergeVars, interp, app,
                   args, before, thread, nvs, k_uptime, task, config_settings,
                   config_nvs, w_data, wifi_call>>

\* the memcpy into config_settings made whatever nvs_write returned
store_config_settings_CopyAnyway ==
    \E null \in BOOLEAN :
      \E c \in (IF null THEN {reset_config_settings} ELSE ConfigInputs) :
        LET size == Len(c.wifi_ssid) + Len(c.wifi_password)
        IN  /\ IF null \/ ~validate_wifi_ssid_and_password(c)
               THEN /\ config_call' =
                         [fn |-> "store_config_settings", null |-> null, c |-> c,
                          err |-> IF null THEN E_NULL_PTR ELSE "E_INVAL",
                          wrote |-> FALSE, bytes_written |-> 0,
                          before |-> config_settings, out |-> c]
                    /\ UNCHANGED <<config_settings, config_nvs>>
               ELSE \E bytes_written \in
                        (IF config_nvs.present /\ config_nvs.data = c
                         THEN {0} ELSE {size})
                            \cup {-EIO, size - 1, size + 1} :
                      LET err == IF bytes_written = size \/ bytes_written = 0
                                 THEN E_SUCCESS ELSE E_ERROR
                      IN  /\ config_nvs' = IF bytes_written = size
                                           THEN [present |-> TRUE, data |-> c]
                                           ELSE config_nvs
                          /\ config_settings' = c
                          /\ config_call' =
                               [fn |-> "store_config_settings", null |-> FALSE,
                                c |-> c, err |-> err, wrote |-> TRUE,
                                bytes_written |-> bytes_written,
                                before |-> config_settings, out |-> c]
            /\ UNCHANGED <<capacity, lists, lock_count, lock_owner, mergeVars,
                           interp, app, args, before, thread, nvs, k_uptime, task,
                           w_data, wifi_call>>

\* store_config_settings(c): E_NULL_PTR for a null c, E_INVAL for a struct
\* failing validation, both before nvs_write; else nvs_write of *c, and the
\* memcpy into config_settings when it returned the size or 0
store_config_settings ==
    \E null \in BOOLEAN :
      \E c \in (IF null THEN {reset_config_settings} ELSE ConfigInputs) :
        LET size == Len(c.wifi_ssid) + Len(c.wifi_password)
        IN  /\ IF null \/ ~validate_wifi_ssid_and_password(c)
               THEN /\ config_call' =
                         [fn |-> "store_config_settings", null |-> null, c |-> c,
                          err |-> IF null THEN E_NULL_PTR ELSE "E_INVAL",
                          wrote |-> FALSE, bytes_written |-> 0,
                          before |-> config_settings, out |-> c]
                    /\ UNCHANGED <<config_settings, config_nvs>>
               ELSE \E bytes_written \in
                        (IF config_nvs.present /\ config_nvs.data = c
                         THEN {0} ELSE {size})
                            \cup {-EIO, size - 1, size + 1} :
                      LET err == IF bytes_written = size \/ bytes_written = 0
                                 THEN E_SUCCESS ELSE E_ERROR
                      IN  /\ config_nvs' = IF bytes_written = size
                                           THEN [present |-> TRUE, data |-> c]
                                           ELSE config_nvs
                          /\ config_settings' = IF err = E_SUCCESS THEN c
                                                ELSE config_settings
                          /\ config_call' =
                               [fn |-> "store_config_settings", null |-> FALSE,
                                c |-> c, err |-> err, wrote |-> TRUE,
                                bytes_written |-> bytes_written,
                                before |-> config_settings, out |-> c]
            /\ UNCHANGED <<capacity, lists, lock_count, lock_owner, mergeVars,
                           interp, app, args, before, thread, nvs, k_uptime, task,
                           w_data, wifi_call>>

\* the configuration store before init_config_settings and the station after
\* init_wifi; one buffer size, no list operation running
InitServices ==
    /\ capacity = 2
    /\ lists = [src1 |-> ZeroList(capacity), src2 |-> ZeroList(capacity),
                dest |-> ZeroList(capacity)]
    /\ lock_count = [l \in DOMAIN lists |-> 0]
    /\ lock_owner = [l \in DOMAIN lists |-> NULL]
    /\ thread = << >>
    /\ NoMerge
    /\ nvs = NULL
    /\ k_uptime = 0
    /\ task = NULL
    /\ ConfigStatic
    /\ WifiStatic
    /\ interp = NoInterp
    /\ app = NoAppend

NextConfig ==
    \/ init_config_settings
    \/ load_config_settings
    \/ store_config_settings

SpecConfig == InitServices /\ [][NextConfig]_vars

(***************************************************************************)
(* The Wi-Fi station (src/app/src/wifi.c).  The API calls and the event    *)
(* handlers hold w_data.mutex from entry to return, so each is one step.   *)
(* The network management layer delivers events at any time: the handlers  *)
(* look neither at the interface nor at the status an event carries.       *)
(* wifi_call records the last step: its name, what it returned, w_data     *)
(* before it, whether it broadcast connection_condvar, whether an          *)
(* enable_wifi_station has succeeded so far, and the events handled since  *)
(* the last one that did (since boot when none has).                       *)
(***************************************************************************)
STATION_STATE_IS_CONNECTING(state) ==
    \/ state = "STATION_STATE_CONNECTING"
    \/ state = "STATION_STATE_CONNECTED_WITHOUT_IP"
    \/ state = "STATION_STATE_CONNECTING_AND_WITH_IP"

\* the connect result taken for the first event whatever the state
wifi_event_handler_CONNECT_RESULT_First ==
    /\ w_data' = [w_data EXCEPT
                    !.station_state = "STATION_STATE_CONNECTED_WITHOUT_IP"]
    /\ wifi_call' = [wifi_call EXCEPT
                       !.fn = "NET_EVENT_WIFI_CONNECT_RESULT",
                       !.err = NULL,
                       !.before = w_data,
                       !.broadcast = FALSE,
                       !.handled = @ \cup {"NET_EVENT_WIFI_CONNECT_RESULT"}]
    /\ UNCHANGED <<capacity, lists, lock_count, lock_owner, mergeVars, interp, app,
                   args, before, thread, nvs, k_uptime, task, config_settings,
                   config_nvs, config_call>>

\* wifi_event_handler, case NET_EVENT_WIFI_CONNECT_RESULT
wifi_event_handler_CONNECT_RESULT ==
    /\ w_data' = IF w_data.station_state = "STATION_STATE_CONNECTING_AND_WITH_IP"
                 THEN [station_state |-> "STATION_STATE_CONNECTED",
                       logins_state |-> "LOGINS_STATE_SET_AND_VALID"]
                 ELSE [w_data EXCEPT
                         !.station_state = "STATION_STATE_CONNECTED_WITHOUT_IP"]
    /\ wifi_call' = [wifi_call EXCEPT
                       !.fn = "NET_EVENT_WIFI_CONNECT_RESULT",
                       !.err = NULL,
                       !.before = w_data,
                       !.broadcast =
                           w_data.station_state = "STATION_STATE_CONNECTING_AND_WITH_IP",
                       !.handled = @ \cup {"NET_EVENT_WIFI_CONNECT_RESULT"}]
    /\ UNCHANGED <<capacity, lists, lock_count, lock_owner, mergeVars, interp, app,
                   args, before, thread, nvs, k_uptime, task, config_settings,
                   config_nvs, config_call>>

\* wifi_event_handler, case NET_EVENT_WIFI_DISCONNECT_RESULT
wifi_event_handler_DISCONNECT_RESULT ==
    /\ w_data' = [station_state |-> "STATION_STATE_DISCONNECTED",
                  logins_state |->
                      IF STATION_STATE_IS_CONNECTING(w_data.station_state)
                      THEN "LOGINS_STATE_SET_AND_INVALID"
                      ELSE w_data.logins_state]
    /\ wifi_call' = [wifi_call EXCEPT
                       !.fn = "NET_EVENT_WIFI_DISCONNECT_RESULT",
                       !.err = NULL,
                       !.before = w_data,
                       !.broadcast = TRUE,
                       !.handled = @ \cup {"NET_EVENT_WIFI_DISCONNECT_RESULT"}]
    /\ UNCHANGED <<capacity, lists, lock_count, lock_owner, mergeVars, interp, app,
                   args, before, thread, nvs, k_uptime, task, config_settings,
                   config_nvs, config_call>>

\* ip_event_handler, NET_EVENT_IPV4_ADDR_ADD
ip_event_handler ==
    /\ w_data' = IF w_data.station_state = "STATION_STATE_CONNECTED_WITHOUT_IP"
                 THEN [station_state |-> "STATION_STATE_CONNECTED",
                       logins_state |-> "LOGINS_STATE_SET_AND_VALID"]
                 ELSE [w_data EXCEPT
                         !.station_state = "STATION_STATE_CONNECTING_AND_WITH_IP"]
    /\ wifi_call' = [wifi_call EXCEPT
                       !.fn = "NET_EVENT_IPV4_ADDR_ADD",
                       !.err = NULL,
                       !.before = w_data,
                       !.broadcast =
                           w_data.station_state = "STATION_STATE_CONNECTED_WITHOUT_IP",
                       !.handled = @ \cup {"NET_EVENT_IPV4_ADDR_ADD"}]
    /\ UNCHANGED <<capacity, lists, lock_count, lock_owner, mergeVars, interp, app,
                   args, before, thread, nvs, k_uptime, task, config_settings,
                   config_nvs, config_call>>

\* set_wifi_logins(ssid, password): refused unless the station is
\* disconnected
set_wifi_logins ==
    LET err == IF w_data.station_state # "STATION_STATE_DISCONNECTED"
               THEN "E_PERM" ELSE E_SUCCESS
    IN  /\ w_data' = IF err = E_SUCCESS
                     THEN [w_data EXCEPT
                             !.logins_state = "LOGINS_STATE_SET_AND_NOT_TESTED"]
                     ELSE w_data
        /\ wifi_call' = [wifi_call EXCEPT
                           !.fn = "set_wifi_logins",
                           !.err = err,
                           !.before = w_data,
                           !.broadcast = FALSE]
        /\ UNCHANGED <<capacity, lists, lock_count, lock_owner, mergeVars, interp,
                       app, args, before, thread, nvs, k_uptime, task,
                       config_settings, config_nvs, config_call>>

\* enable_wifi_station(): rc is what net_mgmt(NET_REQUEST_WIFI_CONNECT)
\* returns when it is reached
enable_wifi_station ==
    \E rc \in {0, -EIO} :
      LET current_station_state == w_data.station_state
          err == IF w_data.logins_state = "LOGINS_STATE_NOT_SET"
                     THEN "E_WIFI_LOGINS_NOT_SET"
                 ELSE IF STATION_STATE_IS_CONNECTING(current_station_state)
                     THEN "E_IN_PROGRESS"
                 ELSE IF current_station_state = "STATION_STATE_CONNECTED"
                     THEN "E_ALREADY_DONE"
                 ELSE IF current_station_state = "STATION_STATE_DISCONNECTING"
                     THEN "E_PERM"
                 ELSE IF rc # 0 THEN E_ERROR
                 ELSE E_SUCCESS
      IN  /\ w_data' = IF err = E_SUCCESS
                       THEN [w_data EXCEPT
                               !.station_state = "STATION_STATE_CONNECTING"]
                       ELSE w_data
          /\ wifi_call' = [wifi_call EXCEPT
                             !.fn = "enable_wifi_station",
                             !.err = err,
                             !.before = w_data,
                             !.broadcast = FALSE,
                             !.requested = @ \/ err = E_SUCCESS,
                             !.handled = IF err = E_SUCCESS THEN {} ELSE @]
          /\ UNCHANGED <<capacity, lists, lock_count, lock_owner, mergeVars, interp,
                         app, args, before, thread, nvs, k_uptime, task,
                         config_settings, config_nvs, config_call>>

\* disable_wifi_station(): rc is what net_mgmt(NET_REQUEST_WIFI_DISCONNECT)
\* returns when it is reached
disable_wifi_station ==
    \E rc \in {0, -EIO} :
      LET current_station_state == w_data.station_state
          err == IF current_station_state = "STATION_STATE_DISCONNECTING"
                     THEN "E_IN_PROGRESS"
                 ELSE IF current_station_state = "STATION_STATE_DISCONNECTED"
                     THEN "E_ALREADY_DONE"
                 ELSE IF STATION_STATE_IS_CONNECTING(current_station_state)
                     THEN "E_PERM"
                 ELSE IF rc # 0 THEN E_ERROR
                 ELSE E_SUCCESS
      IN  /\ w_data' = IF err = E_SUCCESS
                       THEN [w_data EXCEPT
                               !.station_state = "STATION_STATE_DISCONNECTING"]
                       ELSE w_data
          /\ wifi_call' = [wifi_call EXCEPT
                             !.fn = "disable_wifi_station",
                             !.err = err,
                             !.before = w_data,
                             !.broadcast = FALSE]
          /\ UNCHANGED <<capacity, lists, lock_count, lock_owner, mergeVars, interp,
                         app, args, before, thread, nvs, k_uptime, task,
                         config_settings, config_nvs, config_call>>

NextWifi ==
    \/ wifi_event_handler_CONNECT_RESULT
    \/ wifi_event_handler_DISCONNECT_RESULT
    \/ ip_event_handler
    \/ set_wifi_logins
    \/ enable_wifi_station
    \/ disable_wifi_station

SpecWifi == InitServices /\ [][NextWifi]_vars

(***************************************************************************)
(* Properties.                                                             *)
(***************************************************************************)
NonDecreasing(q) == \A i \in 1..(Len(q) - 1) : q[i].uptime <= q[i + 1].uptime

Range(q) == {q[i] : i \in DOMAIN q}

\* the multiset of the elements of a sequence
SeqBag(q) == [e \in Range(q) |-> Cardinality({i \in DOMAIN q : q[i] = e})]

TotalLength == lists[Src1].length + lists[Src2].length

FirstUptime == MIN(lists[Src1].data[1].uptime, lists[Src2].data[1].uptime)

LastUptime ==
    MAX(lists[Src1].data[lists[Src1].length].uptime,
        lists[Src2].data[lists[Src2].length].uptime)

\* C1: exact-merge completeness.  When the two time-ordered sources fit
\* (src1.length + src2.length <= N) the finished merge_temperature_lists has
\* returned success, dest.length is the sum of the lengths, dest[0..length)
\* is non-decreasing in uptime and its multiset of samples is the multiset
\* union of the samples of src1 and src2.
ExactMergeCompleteness ==
    (pc = "done" /\ TotalLength <= capacity) =>
        /\ ret = E_SUCCESS
        /\ lists[Dest].length = TotalLength
        /\ NonDecreasing(Valid(lists[Dest]))
        /\ SeqBag(Valid(lists[Dest]))
             = SeqBag(Valid(lists[Src1])) (+) SeqBag(Valid(lists[Src2]))

\* an exact merge of two interleaved non-empty lists has finished
ExactMergeWitness ==
    /\ pc = "done"
    /\ ret = E_SUCCESS
    /\ TotalLength <= capacity
    /\ lists[Src1].length >= 2
    /\ lists[Src2].length >= 1
    /\ lists[Dest].length = TotalLength
    /\ lists[Src1].data[1].uptime < lists[Src2].data[1].uptime
    /\ lists[Src2].data[1].uptime < lists[Src1].data[2].uptime

\* C2: boundary dispatch.  When src1.length + src2.length = N exactly the
\* call runs merge_without_decimation and never merge_with_decimation; it
\* ends with success, dest.length = N and every sample of dest is a sample
\* of src1 or src2, unmodified.
BoundaryDispatch ==
    (pc # "merge_temperature_lists" /\ TotalLength = capacity) =>
        /\ pc \in {"merge_without_decimation", "nd_loop", "done"}
        /\ dec = DecIdle
        /\ pc = "done" =>
             /\ ret = E_SUCCESS
             /\ lists[Dest].length = capacity
             /\ \A i \in 1..capacity :
                  lists[Dest].data[i]
                      \in Range(Valid(lists[Src1])) \cup Range(Valid(lists[Src2]))

\* a merge of two non-empty lists filling the capacity exactly has finished
BoundaryDispatchWitness ==
    /\ pc = "done"
    /\ TotalLength = capacity
    /\ lists[Src1].length >= 1
    /\ lists[Src2].length >= 1
    /\ lists[Dest].length = capacity

\* C3: decimation shape.  When src1.length + src2.length > N the finished
\* call has produced dest.length = N, dest[0].uptime is the smaller of the
\* first uptimes, dest[N-1].uptime is the larger of the last uptimes, and
\* the uptimes of dest are non-decreasing.
DecimationShape ==
    (pc = "done" /\ TotalLength > capacity) =>
        /\ ret = E_SUCCESS
        /\ lists[Dest].length = capacity
        /\ lists[Dest].data[1].uptime = FirstUptime
        /\ lists[Dest].data[capacity].uptime = LastUptime
        /\ NonDecreasing(Valid(lists[Dest]))

\* a decimation over a non-zero duration that is no multiple of N-1 has
\* finished
DecimationShapeWitness ==
    /\ pc = "done"
    /\ TotalLength > capacity
    /\ lists[Dest].length = capacity
    /\ (LastUptime - FirstUptime) % (capacity - 1) # 0

\* the i-th target uptime (i from 0) of a decimation from start to end
TargetUptime(i, start, end, n) ==
    LET duration == end - start
        base_period == duration \div (n - 1)
        remainder == duration % (n - 1)
    IN  start + i * base_period + MIN(i, remainder)

\* C4: decimation target timestamps.  With duration = end - start,
\* base_period = duration / (N-1) and remainder = duration % (N-1), the i-th
\* output of decimation has uptime start + i*base_period + min(i, remainder),
\* in the staging array while the loop runs and in dest once it has ended,
\* and the last one equals end.
DecimationTargets ==
    (TotalLength > capacity) =>
        /\ \A i \in 1..Len(merged) :
             merged[i].uptime = TargetUptime(i - 1, FirstUptime, LastUptime, capacity)
        /\ pc = "done" =>
             /\ Len(merged) = capacity
             /\ \A i \in 1..capacity :
                  lists[Dest].data[i].uptime
                      = TargetUptime(i - 1, FirstUptime, LastUptime, capacity)
             /\ lists[Dest].data[capacity].uptime = LastUptime

\* a decimation with base_period >= 1 and remainder >= 1 has finished
DecimationTargetsWitness ==
    /\ pc = "done"
    /\ TotalLength > capacity
    /\ Len(merged) = capacity
    /\ (LastUptime - FirstUptime) \div (capacity - 1) >= 1
    /\ (LastUptime - FirstUptime) % (capacity - 1) >= 1

\* the overlap scenario: N = 5, src1 = [(10,10.0),(50,50.0)],
\* src2 = [(20,20.0),(30,40.0)] has been merged
ScenarioDone ==
    /\ capacity = ScenarioCapacity
    /\ Valid(lists[Src1]) = Test2Src1
    /\ Valid(lists[Src2]) = Test2Src2
    /\ pc = "done"

TieAtAdvance ==
    /\ iterator.current_list # NULL
    /\ iterator.next_src1_index < lists[Src1].length
    /\ iterator.next_src2_index < lists[Src2].length
    /\ lists[Src1].data[iterator.next_src1_index + 1].uptime
         = lists[Src2].data[iterator.next_src2_index + 1].uptime

\* an advance under a tie moves the iterator to the candidate of src2
TieAdvancesSrc2 ==
    (TieAtAdvance /\ iterator' # iterator) =>
        /\ iterator'.current_list = Src2
        /\ iterator'.current_index = iterator.next_src2_index
        /\ iterator'.next_src1_index = iterator.next_src1_index

\* with equal first uptimes the first sample yielded is src2[0]
TieAtInitYieldsSrc2 ==
    (/\ lists[Src1].length > 0
     /\ lists[Src2].length > 0
     /\ lists[Src1].data[1].uptime = lists[Src2].data[1].uptime
     /\ Len(yielded) >= 1) =>
        yielded[1] = [list |-> Src2, index |-> 0]

\* no sample of src1 is yielded before a sample of src2 of the same uptime
Src2BeforeSrc1OnTies ==
    \A p \in 1..Len(yielded) : \A q \in (p + 1)..Len(yielded) :
        ~ (/\ yielded[p].list = Src1
           /\ yielded[q].list = Src2
           /\ Deref(lists, yielded[p]).uptime = Deref(lists, yielded[q]).uptime)

\* C6: tie-break determinism.  Whenever the merge iterator chooses between a
\* sample of src1 and a sample of src2 of identical uptime, at initialisation
\* and at every advance step, it takes the sample of src2; hence every sample
\* of src2 with uptime t is yielded before every sample of src1 with uptime t.
TieBreakDeterminism ==
    /\ [](TieAtInitYieldsSrc2 /\ Src2BeforeSrc1OnTies)
    /\ [][TieAdvancesSrc2]_vars

\* ties were met at initialisation and at a later advance step: src2 samples
\* were yielded first and third, a src1 sample of the uptime of the third
\* after it
TieBreakWitness ==
    /\ Len(yielded) >= 4
    /\ yielded[1].list = Src2
    /\ yielded[2].list = Src1
    /\ yielded[3].list = Src2
    /\ yielded[4].list = Src1
    /\ Deref(lists, yielded[1]).uptime = Deref(lists, yielded[2]).uptime
    /\ Deref(lists, yielded[3]).uptime = Deref(lists, yielded[4]).uptime
    /\ Deref(lists, yielded[2]).uptime < Deref(lists, yielded[3]).uptime

\* C7: interpolation midpoint.  For samples a, b with a.uptime # b.uptime,
\* passed in either order, interpolate(a, b, (a.uptime + b.uptime)/2)
\* returns the temperature (a.temperature + b.temperature)/2.  Stated on the
\* inputs where both the midpoint and the mean are exact integers, so that
\* no rounding enters.
InterpolationMidpoint ==
    (/\ interp.returned
     /\ interp.t1.uptime # interp.t2.uptime
     /\ (interp.t1.uptime + interp.t2.uptime) % 2 = 0
     /\ (interp.t1.temperature + interp.t2.temperature) % 2 = 0
     /\ interp.uptime = (interp.t1.uptime + interp.t2.uptime) \div 2) =>
        interp.result.temperature
            = (interp.t1.temperature + interp.t2.temperature) \div 2

\* the value the interpolation formula gives for a, b at uptime t:
\* earlier + trunc((later - earlier) * (t - earlier.uptime) / delta_time)
LinearValue(a, b, t) ==
    LET earlier == IF a.uptime < b.uptime THEN a ELSE b
        later == IF a.uptime < b.uptime THEN b ELSE a
    IN  earlier.temperature
          + TruncDiv((later.temperature - earlier.temperature)
                        * (t - earlier.uptime),
                     later.uptime - earlier.uptime)

\* C8: the interpolation formula is independent of the argument order.  For
\* a.uptime # b.uptime, interpolate(a, b, t) has uptime t and temperature
\* earlier + trunc((later - earlier) * (t - earlier.uptime) / delta_time),
\* earlier and later being a and b ordered by uptime; in particular
\* interpolate(a, b, t) = interpolate(b, a, t).
InterpolationOrderIndependent ==
    (interp.returned /\ interp.t1.uptime # interp.t2.uptime) =>
        /\ interp.result.uptime = interp.uptime
        /\ interp.result.temperature
             = LinearValue(interp.t1, interp.t2, interp.uptime)
        /\ interp.result = interpolate(interp.t2, interp.t1, interp.uptime)

\* C9: equal-timestamp interpolation.  When a.uptime = b.uptime the result
\* of interpolate(a, b, t) has uptime t, for every requested t, and its
\* temperature is (a.temperature + b.temperature)/2 truncated toward zero:
\* twice the result lies between zero and the sum, less than 2 away from it.
EqualTimestampMean ==
    (interp.returned /\ interp.t1.uptime = interp.t2.uptime) =>
        LET sum == interp.t1.temperature + interp.t2.temperature
            r == interp.result.temperature
        IN  /\ interp.result.uptime = interp.uptime
            /\ sum >= 0 => (0 <= 2 * r /\ 2 * r <= sum /\ sum < 2 * r + 2)
            /\ sum < 0 => (0 >= 2 * r /\ 2 * r >= sum /\ sum > 2 * r - 2)

\* equal uptimes, a negative odd sum of temperatures and a target other than
\* the common uptime: the mean was truncated toward zero
EqualTimestampWitness ==
    /\ interp.returned
    /\ interp.t1.uptime = interp.t2.uptime
    /\ interp.uptime # interp.t1.uptime
    /\ interp.t1.temperature + interp.t2.temperature = -3
    /\ interp.result.temperature = -1

\* C10: full-buffer rejection.  append_temperature_sample on a list with
\* length = N returns E_NOBUFS and leaves length and data unchanged; on a
\* list with length < N it returns success, stores the sample at index
\* length, leaves every other slot alone and increments length by exactly 1.
FullBufferRejection ==
    (app.err # NULL) =>
        /\ app.before.length = capacity =>
             /\ app.err = E_NOBUFS
             /\ lists[List] = app.before
        /\ app.before.length < capacity =>
             /\ app.err = E_SUCCESS
             /\ lists[List].length = app.before.length + 1
             /\ lists[List].data[app.before.length + 1] = app.sample
             /\ \A i \in 1..capacity :
                  i # app.before.length + 1 =>
                      lists[List].data[i] = app.before.data[i]

\* an append on a full, non-zero list was rejected
FullBufferRejectionWitness ==
    /\ app.err = E_NOBUFS
    /\ app.before.length = capacity
    /\ lists[List].length = capacity
    /\ lists[List].data[capacity] # ZeroSample
    /\ app.sample # lists[List].data[capacity]

\* C11: empty-input identity.  When one of the two sources is empty and the
\* other is a list L (length <= N), the finished merge_temperature_lists has
\* returned success, dest.length = L.length and dest[0..length) equals L
\* element for element; this holds with the empty list as src1 and as src2.
EmptyInputIdentity ==
    pc = "done" =>
        /\ lists[Src1].length = 0 =>
             /\ ret = E_SUCCESS
             /\ lists[Dest].length = lists[Src2].length
             /\ Valid(lists[Dest]) = Valid(lists[Src2])
        /\ lists[Src2].length = 0 =>
             /\ ret = E_SUCCESS
             /\ lists[Dest].length = lists[Src1].length
             /\ Valid(lists[Dest]) = Valid(lists[Src1])

\* a merge of an empty src1 with a src2 of several samples has finished
EmptyInputIdentityWitness ==
    /\ pc = "done"
    /\ lists[Src1].length = 0
    /\ lists[Src2].length >= 2
    /\ lists[Dest].length = lists[Src2].length
    /\ lists[Dest].data[2] # ZeroSample

\* C12: both-empty merge.  With src1 and src2 both empty the first
\* merge_iterate of the drain loop returns E_END_OF_ITER (no sample is ever
\* yielded), and the finished merge_temperature_lists has returned success
\* with dest.length = 0.
BothEmptyMerge ==
    (lists[Src1].length = 0 /\ lists[Src2].length = 0) =>
        /\ pc \in {"merge_temperature_lists", "merge_without_decimation",
                   "nd_loop", "done"}
        /\ yielded = << >>
        /\ pc = "nd_loop" =>
             merge_iterate(iterator, sample, lists).err = E_END_OF_ITER
        /\ pc = "done" =>
             /\ ret = E_SUCCESS
             /\ index = 0
             /\ lists[Dest].length = 0

\* the merge of two empty lists has finished
BothEmptyMergeWitness ==
    /\ pc = "done"
    /\ lists[Src1].length = 0
    /\ lists[Src2].length = 0
    /\ iterator.current_list = NULL
    /\ lists[Dest].length = 0

\* C18: compact never leaks EndOfIteration.  For all inputs, time-ordered
\* or not, merge_temperature_lists never returns E_END_OF_ITER: when the
\* exact merge has drained the iterator (the next merge_iterate would return
\* E_END_OF_ITER) the call has returned success, and a decimation that has
\* not filled its N slots has returned the generic error E_ERROR.
NeverEndOfIteration ==
    /\ ret # E_END_OF_ITER
    /\ pc = "done" =>
         IF FitsWithoutDecimation(before.lists[Src1], before.lists[Src2], capacity)
         THEN /\ merge_iterate(iterator, sample, lists).err = E_END_OF_ITER
              /\ ret = E_SUCCESS
         ELSE /\ ret \in {E_SUCCESS, E_ERROR}
              /\ ret = E_ERROR <=> dec.merge_index < capacity

\* an exact merge of lists that are not time-ordered has drained the iterator
NeverEndOfIterationWitness ==
    /\ pc = "done"
    /\ ret = E_SUCCESS
    /\ iterator.current_list = NULL
    /\ index = capacity
    /\ ~ NonDecreasing(Valid(before.lists[Src1]))
    /\ lists[Src2].length >= 1

\* context t waits in k_mutex_lock for a mutex that context u owns
WaitsFor(t, u) ==
    /\ t # u
    /\ thread[t].pc = "locking"
    /\ lock_count[thread[t].locks[thread[t].next]] > 0
    /\ lock_owner[thread[t].locks[thread[t].next]] = u

\* a set of contexts each of which waits for a member of the set
CircularWait ==
    \E S \in SUBSET Contexts :
        /\ S # {}
        /\ \A t \in S : \E u \in S : WaitsFor(t, u)

\* C13: deadlock freedom of the ordered multi-lock.  With any number of
\* contexts taking subsets of the shared list locks through DOUBLE_LOCK or
\* TRIPLE_LOCK, arguments in any permutation, no reachable state is a
\* circular wait, and, holders releasing eventually, every context that has
\* entered a lock macro eventually holds all the locks it asked for.
OrderedLockingDeadlockFree ==
    /\ [] ~ CircularWait
    /\ \A t \in Contexts :
         (thread[t].pc = "locking") ~> (thread[t].pc = "locked")

\* one context holds the three locks through TRIPLE_LOCK while another, which
\* entered DOUBLE_LOCK, waits for its first lock
OrderedLockingWitness ==
    \E t \in Contexts, u \in Contexts :
        /\ thread[t].pc = "locked"
        /\ Len(thread[t].locks) = 3
        /\ thread[u].pc = "locking"
        /\ Len(thread[u].locks) = 2
        /\ WaitsFor(u, t)

\* the samples merge_without_decimation stages: the iterator m drained
RECURSIVE Drained(_, _, _)
Drained(m, acc, L) ==
    LET r == merge_iterate(m, NullSample, L)
    IN  IF r.err # E_SUCCESS THEN acc
        ELSE Drained(r.m, Append(acc, Deref(L, r.sample)), L)

\* the samples merge_with_decimation stages from the locals d and iterator m
RECURSIVE Decimated(_, _, _, _, _)
Decimated(d, m, acc, L, n) ==
    IF d.merge_index >= n THEN acc
    ELSE IF /\ U32Le(Deref(L, d.prev).uptime, d.merge_uptime)
            /\ U32Le(d.merge_uptime, Deref(L, d.current).uptime)
    THEN Decimated([d EXCEPT !.merge_index = @ + 1,
                             !.merge_uptime =
                                 NextMergeUptime(@, d.sample_base_period,
                                                 d.merge_index + 1,
                                                 d.long_periods_needed)],
                   m,
                   Append(acc, interpolate(Deref(L, d.prev), Deref(L, d.current),
                                           d.merge_uptime)),
                   L, n)
    ELSE LET r == merge_iterate(m, d.current, L)
         IN  IF r.err # E_SUCCESS THEN acc
             ELSE Decimated([d EXCEPT !.prev = d.current, !.current = r.sample],
                            r.m, acc, L, n)

\* compact(l1, l2): the samples of the compaction of the lists l1 (src1) and
\* l2 (src2) with capacity n, as one function of its inputs
compact(l1, l2, n) ==
    LET L == [src1 |-> l1, src2 |-> l2]
        m0 == init_merge_iterator(UninitIterator, "src1", "src2", L)
    IN  IF FitsWithoutDecimation(l1, l2, n)
        THEN Drained(m0, << >>, L)
        ELSE LET r1 == merge_iterate(m0, NullSample, L)
                 r2 == merge_iterate(r1.m, NullSample, L)
             IN  Decimated([TimeGrid(l1, l2, n) EXCEPT !.prev = r1.sample,
                                                       !.current = r2.sample],
                           r2.m, << >>, L, n)

\* the handler is past its last statement that touches the lists or NVS
CycleOver == task.pc = "DOUBLE_UNLOCK"

\* C14: aliased destination does not self-deadlock.  In a call
\* merge_temperature_lists(src1, src2, dest) with dest identical to src2, as
\* made by the sampling task, TRIPLE_LOCK never waits for a mutex the caller
\* holds; while the call runs the shared mutex is held two times more and
\* that of src1 once more than at entry, all by the caller; and when the call
\* has returned every lock_count and owner is what it was at entry.
AliasedMergeLocks ==
    (pc # "idle" /\ Dest = Src2) =>
        /\ pc = "merge_temperature_lists" =>
             /\ lock_count = before.lock_count
             /\ \A l \in {Src1, Src2, Dest} :
                  Acquirable(lock_count, lock_owner, l, Caller)
        /\ pc \notin {"merge_temperature_lists", "done"} =>
             /\ lock_count[Src2] = before.lock_count[Src2] + 2
             /\ lock_count[Src1] = before.lock_count[Src1] + 1
             /\ lock_owner[Src1] = Caller
             /\ lock_owner[Src2] = Caller
        /\ pc = "done" =>
             /\ lock_count = before.lock_count
             /\ \A l \in {Src1, Src2} : lock_owner[l] = WorkQueue

\* the aliased call of the sampling task has decimated and returned
AliasedMergeWitness ==
    /\ pc = "done"
    /\ ret = E_SUCCESS
    /\ Dest = Src2
    /\ Src2 = Scratch
    /\ dec.merge_index = capacity
    /\ lock_count[Scratch] = 1
    /\ before.lock_count[Scratch] = 1

\* C15: lock release on every exit path.  Whenever perform_sampling_task has
\* returned, after success or after a failed step, the work queue holds
\* neither the lock of the RAM list nor that of the scratch list; and
\* whenever merge_temperature_lists has returned, with success or an error,
\* it has released every lock it took (the counts are those at its entry).
LocksReleasedOnEveryExit ==
    /\ task.pc = "idle" =>
         \A l \in {Ram, Scratch} :
             /\ lock_owner[l] # WorkQueue
             /\ lock_count[l] = 0
    /\ pc = "done" => lock_count = before.lock_count

\* the handler has returned from a cycle in which a step of the compaction
\* branch failed
LocksReleasedWitness ==
    /\ task.pc = "idle"
    /\ task.err = E_ERROR
    /\ task.init = E_SUCCESS
    /\ lists[Ram].length = capacity
    /\ lock_count[Ram] = 0
    /\ lock_count[Scratch] = 0

\* C17: sampling-cycle effect.  At the end of a handler run in which every
\* step succeeded: if the RAM list was full at the start, the persisted list
\* is compact(RAM at start, persisted at start) and the RAM list holds
\* exactly the newly acquired sample; if the RAM list was not full, it has
\* grown by exactly one, the new sample last and the others unchanged, and
\* the persisted list is not touched.
SamplingCycleEffect ==
    (CycleOver /\ task.err = E_SUCCESS) =>
        LET ram0 == task.start.lists[Ram]
            new == temperature_sample_t(
                       sensor_value_to_temperature(SensorValue(k_uptime)), k_uptime)
        IN  /\ task.sample = new
            /\ IF ram0.length = capacity
               THEN /\ nvs.present
                    /\ Valid(nvs.list) = compact(ram0, task.start.persisted, capacity)
                    /\ lists[Ram].length = 1
                    /\ lists[Ram].data[1] = new
               ELSE /\ lists[Ram].length = ram0.length + 1
                    /\ lists[Ram].data[ram0.length + 1] = new
                    /\ \A i \in 1..ram0.length : lists[Ram].data[i] = ram0.data[i]
                    /\ Persisted = task.start.persisted

\* a cycle that compacted a full RAM list into a full persisted list by
\* decimation, changed the persisted list and appended the new sample
SamplingCycleWitness ==
    /\ CycleOver
    /\ task.err = E_SUCCESS
    /\ task.start.lists[Ram].length = capacity
    /\ task.start.persisted.length = capacity
    /\ nvs.list # task.start.persisted
    /\ lists[Ram].length = 1

\* C20: capacity invariant.  In every reachable state of the sampling task,
\* through resets, appends, loads, compactions and stores, the RAM list, the
\* scratch list and the persisted list each have 0 <= length <= N.
CapacityInvariant ==
    /\ \A l \in {Ram, Scratch} :
         lists[l].length >= 0 /\ lists[l].length <= capacity
    /\ nvs.list.length >= 0 /\ nvs.list.length <= capacity
    /\ Persisted.length >= 0 /\ Persisted.length <= capacity

\* the RAM list, the scratch list and the persisted list are all full
CapacityWitness ==
    /\ lists[Ram].length = capacity
    /\ lists[Scratch].length = capacity
    /\ nvs.present
    /\ nvs.list.length = capacity
    /\ task.pc = "idle"

\* C16: the periodic loop never stops.  Every execution of
\* perform_sampling_task calls k_work_reschedule exactly once, with the
\* delay K_SECONDS(30), whatever the outcome of the cycle: not before the
\* reschedule label, and once by the time the handler unlocks and returns.
\* Hence, once init_temperature_logger has succeeded, the handler is entered
\* again and again.
PeriodicLoopNeverStops ==
    /\ [] (task.pc \notin {"idle", "DOUBLE_UNLOCK"} =>
               task.reschedules = 0 /\ task.pending = NULL)
    /\ [] ((task.pc = "DOUBLE_UNLOCK" \/ (task.pc = "idle" /\ task.err # NULL)) =>
               task.reschedules = 1 /\ task.pending = K_SECONDS_30)
    /\ (task.init = E_SUCCESS) ~> (task.pc = "DOUBLE_LOCK")

\* the handler has returned from a cycle whose sensor fetch failed, the work
\* item scheduled again
PeriodicLoopWitness ==
    /\ task.pc = "idle"
    /\ task.err = E_ERROR
    /\ lists[Ram].length < capacity
    /\ nvs.present
    /\ task.reschedules = 1
    /\ task.pending = K_SECONDS_30

\* the list whose lock the reader holds, copying it
ReaderHolds(l) ==
    /\ thread[Reader].pc = "locked"
    /\ thread[Reader].locks = <<l>>

\* C19: readers never observe a buffer mid-mutation.  While a reader holds
\* the lock of a list to copy it, interleaved in any way with the sampling
\* task and its compaction, the list has length <= N, its first `length`
\* entries are time-ordered, the work queue does not hold that lock, and the
\* content is that of the start of the running cycle or that of its end;
\* and no step changes the data or length of a list unless the work queue
\* holds the lock of that list.
ReadersSeeWholeCycles ==
    /\ [] (\A l \in {Ram, Scratch} :
              ReaderHolds(l) =>
                  /\ lists[l].length <= capacity
                  /\ NonDecreasing(Valid(lists[l]))
                  /\ lock_owner[l] = Reader
                  /\ \/ task.pc \in {"idle", "DOUBLE_UNLOCK"}
                     \/ lists[l] = task.start.lists[l])
    /\ [][\A l \in {Ram, Scratch} :
              lists'[l] # lists[l] =>
                  lock_owner[l] = WorkQueue /\ lock_count[l] > 0]_vars

\* the reader holds the lock of the scratch list, which a compaction has
\* filled, while the handler of the next cycle waits for that lock
ReadersWitness ==
    /\ ReaderHolds(Scratch)
    /\ lists[Scratch].length = capacity
    /\ lists[Scratch].data[capacity].uptime > lists[Scratch].data[1].uptime
    /\ thread[WorkQueue].pc = "locking"
    /\ lock_owner[Ram] = WorkQueue
    /\ WaitsFor(WorkQueue, Reader)

\* C21: time-order invariant.  The uptime clock never going back within a
\* boot, in every reachable state of the sampling task the first `length`
\* entries of the RAM list and of the persisted list are non-decreasing in
\* uptime, the samples staged by a running compaction are non-decreasing,
\* and so is the destination of every compaction that has returned success
\* (exact merge or decimation).
TimeOrderInvariant ==
    /\ NonDecreasing(Valid(lists[Ram]))
    /\ NonDecreasing(Valid(Persisted))
    /\ NonDecreasing(merged)
    /\ (pc = "done" /\ ret = E_SUCCESS) => NonDecreasing(Valid(lists[Dest]))

\* a decimating compaction has returned: its sources overlapped in time, the
\* persisted list starting before the RAM list and ending after its start
TimeOrderWitness ==
    /\ pc = "done"
    /\ ret = E_SUCCESS
    /\ dec.merge_index = capacity
    /\ Dest = Scratch
    /\ lists[Ram].length = capacity
    /\ task.start.persisted.length = capacity
    /\ task.start.persisted.data[capacity].uptime > lists[Ram].data[1].uptime
    /\ lists[Scratch].data[capacity].uptime > lists[Scratch].data[1].uptime

\* C22: load of an absent key.  Whenever load_temperature_list has returned
\* after nvs_read reported -ENOENT, it has returned E_SUCCESS, the list is
\* reset (length 0, data zeroed) and the key exists, holding that empty
\* list, so that no later load sees -ENOENT.
LoadAbsentKeyCreatesKey ==
    (task.io = [op |-> "nvs_read", rc |-> -ENOENT]) =>
        /\ task.err = E_SUCCESS
        /\ lists[Scratch] = ZeroList(capacity)
        /\ nvs.present
        /\ nvs.list = Stored(ZeroList(capacity))

\* the calls of a cycle in program order: the compaction branch when the RAM
\* list was full at the start, then the sampling
CyclePath ==
    (IF task.start.lists[Ram].length = capacity
     THEN <<"load_temperature_list", "merge_temperature_lists",
            "store_temperature_list", "reset_temperature_list">>
     ELSE << >>)
        \o <<"get_temperature_sample", "append_temperature_sample">>

\* C23: failed steps are skipped, not retried.  At every point of a cycle
\* the calls made so far are an initial part of the cycle's calls in program
\* order, each made once, and only the last of them can have failed: after
\* a failed load, compact, store or sensor fetch no call is repeated and no
\* later call is made.  When the cycle ends after a failed fetch the RAM
\* list holds no new sample, and after a failed load, compact or store the
\* RAM list and the NVS record are what they were at the start.
FailedStepsSkipped ==
    task.pc # "idle" =>
        LET n == Len(task.steps)
        IN  /\ n <= Len(CyclePath)
            /\ \A i \in 1..n : task.steps[i].fn = CyclePath[i]
            /\ \A i \in 1..(n - 1) : task.steps[i].err = E_SUCCESS
            /\ (CycleOver /\ task.err # E_SUCCESS) =>
                 /\ n >= 1
                 /\ task.steps[n].err = task.err
                 /\ task.steps[n].fn = "get_temperature_sample" =>
                      lists[Ram] = IF n = 1 THEN task.start.lists[Ram]
                                   ELSE ZeroList(capacity)
                 /\ task.steps[n].fn \in {"load_temperature_list",
                                          "merge_temperature_lists",
                                          "store_temperature_list"} =>
                      /\ lists[Ram] = task.start.lists[Ram]
                      /\ Persisted = task.start.persisted

\* a cycle has ended in which the store of a decimated list failed: the RAM
\* list is still full and the record is the old one
FailedStepsWitness ==
    /\ CycleOver
    /\ task.err = E_ERROR
    /\ Len(task.steps) = 3
    /\ task.steps[3] = Step("store_temperature_list", E_ERROR)
    /\ task.start.persisted.length = capacity
    /\ lists[Ram].length = capacity
    /\ Stored(lists[Scratch]) # nvs.list

\* C24: sensor absence at initialisation is fatal.  When the sensor device
\* is missing or not ready init_temperature_logger returns E_ERROR without
\* scheduling the work item: from then on, until the board restarts, the
\* work item is never pending, the handler never runs and the lists and the
\* clock reading stay as at boot.  Before initialisation nothing is
\* scheduled either, and after a successful one the first cycle is scheduled
\* with K_NO_WAIT.
SensorAbsenceFatal ==
    /\ task.init \in {NULL, E_ERROR} =>
         /\ task.pending = NULL
         /\ task.pc = "idle"
         /\ task.err = NULL
         /\ thread[WorkQueue] = IdleThread
         /\ \A l \in {Ram, Scratch} : lists[l] = ZeroList(capacity)
         /\ k_uptime = 0
    /\ (task.init = E_SUCCESS /\ task.pc = "idle" /\ task.err = NULL) =>
         task.pending = K_NO_WAIT

\* init_temperature_logger has failed in a boot that follows one in which
\* cycles ran and a record was stored
SensorAbsenceWitness ==
    /\ task.init = E_ERROR
    /\ task.pending = NULL
    /\ nvs.present
    /\ nvs.list.length = capacity

\* the samples the iterator has returned that lie in the list src
YieldedFrom(src) ==
    LET IsFrom(p) == p.list = src
    IN  SelectSeq(yielded, IsFrom)

\* C25: merge iterator order and completeness.  For time-ordered src1 and
\* src2, at every point of the iteration the samples returned so far have
\* non-decreasing uptimes and those of each source are its entries 0, 1, 2,
\* ... in that order, none skipped and none twice; merge_iterate returns
\* E_END_OF_ITER only after exactly src1.length + src2.length samples, all
\* entries of both sources, and never returns more.
MergeIteratorOrder ==
    pc = "merge_iterate" =>
        /\ NonDecreasing([i \in 1..Len(yielded) |-> Deref(lists, yielded[i])])
        /\ \A src \in {Src1, Src2} :
             /\ \A i \in 1..Len(YieldedFrom(src)) : YieldedFrom(src)[i].index = i - 1
             /\ Len(YieldedFrom(src)) <= lists[src].length
        /\ Len(yielded) = Len(YieldedFrom(Src1)) + Len(YieldedFrom(Src2))
        /\ ret = E_END_OF_ITER <=> index >= 1
        /\ ret = E_END_OF_ITER => Len(yielded) = TotalLength
        /\ (ret = E_SUCCESS /\ Len(yielded) = TotalLength) =>
               merge_iterate(iterator, sample, lists).err = E_END_OF_ITER

\* two full lists with interleaved uptimes have been iterated to the end
MergeIteratorWitness ==
    /\ pc = "merge_iterate"
    /\ ret = E_END_OF_ITER
    /\ lists[Src1].length = capacity
    /\ lists[Src2].length = capacity
    /\ Len(yielded) = 2 * capacity
    /\ yielded[1].list = Src1
    /\ yielded[2].list = Src2
    /\ yielded[3].list = Src1
    /\ Deref(lists, yielded[1]).uptime < Deref(lists, yielded[2 * capacity]).uptime

\* C26: terminal exhaustion of the merge iterator.  Once merge_iterate has
\* returned E_END_OF_ITER, every further call on the same iterator returns
\* E_END_OF_ITER again, leaves every field of the iterator as it was and
\* does not write the output sample pointer.
TerminalExhaustion ==
    [][(pc = "merge_iterate" /\ ret = E_END_OF_ITER) =>
           /\ ret' = E_END_OF_ITER
           /\ iterator' = iterator
           /\ sample' = sample]_vars

\* merge_iterate has been called again after the end of an iteration that
\* returned samples of both lists, the out pointer still at the last sample
TerminalExhaustionWitness ==
    /\ pc = "merge_iterate"
    /\ index = MaxExhaustedCalls
    /\ ret = E_END_OF_ITER
    /\ iterator.current_list = NULL
    /\ YieldedFrom(Src1) # << >>
    /\ YieldedFrom(Src2) # << >>
    /\ sample = yielded[Len(yielded)]

\* the sequence q of locks is strictly ascending in address
Ascending(q) == \A i \in 1..(Len(q) - 1) : Address[q[i]] < Address[q[i + 1]]

\* the sequence q of locks is strictly descending in address
Descending(q) == \A i \in 1..(Len(q) - 1) : Address[q[i]] > Address[q[i + 1]]

\* C27: acquisition and release order.  For every permutation of distinct
\* lock arguments, the k_mutex_lock calls of DOUBLE_LOCK and TRIPLE_LOCK are
\* the arguments in strictly ascending address order and the k_mutex_unlock
\* calls of DOUBLE_UNLOCK and TRIPLE_UNLOCK are the arguments in strictly
\* descending order; so every lock a context acquires has a higher address
\* than all it holds, and every lock it releases is the highest it holds.
AcquisitionReleaseOrder ==
    /\ [] (\A t \in Contexts :
              thread[t].pc # "idle" =>
                  /\ Len(thread[t].locks) = Len(thread[t].args)
                  /\ Held(t) = {thread[t].args[i] : i \in DOMAIN thread[t].args}
                  /\ thread[t].pc \in {"locking", "locked"} =>
                         Ascending(thread[t].locks)
                  /\ thread[t].pc = "unlocking" => Descending(thread[t].locks))
    /\ [][\A l \in DOMAIN lists :
              /\ lock_count'[l] > lock_count[l] =>
                     \A h \in DOMAIN lists :
                         (lock_count[h] > 0 /\ lock_owner[h] = lock_owner'[l]) =>
                             Address[h] < Address[l]
              /\ lock_count'[l] < lock_count[l] =>
                     \A h \in DOMAIN lists \ {l} :
                         (lock_count[h] > 0 /\ lock_owner[h] = lock_owner[l]) =>
                             Address[h] < Address[l]]_vars

\* a context that passed its three locks to TRIPLE_UNLOCK as (src2, dest,
\* src1) has released dest and still holds src2 and src1
AcquisitionReleaseWitness ==
    \E t \in Contexts :
        /\ thread[t].pc = "unlocking"
        /\ thread[t].args = <<"src2", "dest", "src1">>
        /\ thread[t].next = 2
        /\ lock_count = [src1 |-> 1, src2 |-> 1, dest |-> 0]
        /\ lock_owner["src1"] = t
        /\ lock_owner["src2"] = t

\* C28: aliasing does not change the result.  For all time-ordered src1 and
\* src2, whether dest is src1, src2 or a third list, no list is written
\* before the merge has read its last source sample, and what
\* merge_temperature_lists has written to dest when it returns is the
\* same function compact(src1, src2) of the lists at entry (length and
\* data[0..length)), on the exact-merge and on the decimation path; a source
\* that is not dest is left as it was.
AliasingSameResult ==
    /\ pc \notin {"merge_temperature_lists", "done"} => lists = before.lists
    /\ pc = "done" =>
         /\ ret = E_SUCCESS
         /\ Valid(lists[Dest]) =
                compact(before.lists[Src1], before.lists[Src2], capacity)
         /\ \A l \in DOMAIN lists \ {Dest} : lists[l] = before.lists[l]

\* a decimating merge of two full lists that overlap in time has returned
\* with src2 as destination, its content changed
AliasingWitness ==
    /\ pc = "done"
    /\ Dest = Src2
    /\ dec.merge_index = capacity
    /\ before.lists[Src1].length = capacity
    /\ before.lists[Src2].length = capacity
    /\ before.lists[Src1].data[capacity].uptime > before.lists[Src2].data[1].uptime
    /\ before.lists[Src2].data[capacity].uptime > before.lists[Src1].data[1].uptime
    /\ lists[Src2] # before.lists[Src2]

\* the loop of merge_with_decimation needs another sample: its target lies
\* outside [prev.uptime, current.uptime]
NeedsShift ==
    /\ pc = "d_loop"
    /\ dec.merge_index < capacity
    /\ ~ (/\ dec.merge_uptime >= Deref(lists, dec.prev).uptime
          /\ dec.merge_uptime <= Deref(lists, dec.current).uptime)

\* C29: decimation always succeeds on valid input.  For all time-ordered
\* src1 and src2 of length <= N (N >= 2) with src1.length + src2.length > N:
\* in the loop of merge_with_decimation prev and current are the last two
\* samples the iterator returned, a consecutive pair of the merged sequence;
\* whenever the target lies outside that pair the iterator is not exhausted
\* (the target is not beyond the last sample), so the routine never takes
\* its error exit, and it returns success after N outputs.
DecimationAlwaysSucceeds ==
    ~ FitsWithoutDecimation(before.lists[Src1], before.lists[Src2], capacity) =>
        /\ pc = "d_loop" =>
             /\ Len(yielded) >= 2
             /\ dec.prev = yielded[Len(yielded) - 1]
             /\ dec.current = yielded[Len(yielded)]
             /\ Len(merged) = dec.merge_index
        /\ NeedsShift =>
             /\ iterator.current_list # NULL
             /\ Len(yielded) < TotalLength
             /\ dec.merge_uptime > Deref(lists, dec.current).uptime
        /\ pc = "done" =>
             /\ ret = E_SUCCESS
             /\ dec.merge_index = capacity
             /\ Len(merged) = capacity

\* a decimation of two full lists has succeeded for which the iterator had
\* to be drained to its last sample
DecimationSucceedsWitness ==
    /\ pc = "done"
    /\ ret = E_SUCCESS
    /\ before.lists[Src1].length = capacity
    /\ before.lists[Src2].length = capacity
    /\ dec.merge_index = capacity
    /\ Len(yielded) = 2 * capacity
    /\ iterator.current_list = NULL

\* C30: store result rule.  store_temperature_list returns E_SUCCESS if and
\* only if nvs_write returned the size of the record (data and length, the
\* lock excluded) or exactly 0, and E_ERROR for any other count or negative
\* error code; load_temperature_list returns E_ERROR if and only if nvs_read
\* returned something other than the size of the record or -ENOENT.
StoreResultRule ==
    /\ task.io.op = "nvs_write" =>
         /\ task.err = E_SUCCESS <=> task.io.rc \in {RecordSize, 0}
         /\ task.err = E_ERROR <=> task.io.rc \notin {RecordSize, 0}
    /\ task.io.op = "nvs_read" =>
         /\ task.err = E_ERROR <=> task.io.rc \notin {RecordSize, -ENOENT}
         /\ task.err = E_SUCCESS <=> task.io.rc \in {RecordSize, -ENOENT}

\* store_temperature_list has returned E_SUCCESS for a decimated list equal
\* to the stored record, nvs_write having written 0 bytes
StoreResultWitness ==
    /\ task.io = [op |-> "nvs_write", rc |-> 0]
    /\ task.err = E_SUCCESS
    /\ task.pc = "reset_temperature_list"
    /\ nvs.list.length = capacity
    /\ nvs.list = Stored(lists[Scratch])

\* the first k calls of the running cycle have all been made and succeeded
StepsSucceeded(k) ==
    /\ Len(task.steps) >= k
    /\ \A i \in 1..k : task.steps[i].err = E_SUCCESS

\* C31: no unpersisted loss of RAM samples.  During a cycle of the sampling
\* task the samples the RAM list held at the start are still its first
\* samples unless load, compact and store have all succeeded in this cycle,
\* and then the stored record is the compaction of that RAM list with the
\* list persisted at the start; when load, compact or store has failed the
\* RAM list is exactly what it was at the start, still full.  The RAM list
\* never gets shorter in a step of a boot other than the reset that follows
\* the successful store.
NoUnpersistedLoss ==
    /\ [](task.pc # "idle" =>
            LET ram0 == task.start.lists[Ram]
                n == Len(task.steps)
                compacted == ram0.length = capacity /\ StepsSucceeded(3)
            IN  /\ ~compacted =>
                     /\ lists[Ram].length >= ram0.length
                     /\ \A i \in 1..ram0.length :
                          lists[Ram].data[i] = ram0.data[i]
                /\ compacted =>
                     /\ nvs.present
                     /\ Valid(nvs.list) = compact(ram0, task.start.persisted, capacity)
                /\ (/\ ram0.length = capacity
                    /\ n \in 1..3
                    /\ task.steps[n].err # E_SUCCESS) =>
                     /\ lists[Ram] = ram0
                     /\ lists[Ram].length = capacity)
    /\ [][(task'.init # NULL /\ lists'[Ram].length < lists[Ram].length) =>
            /\ task.pc = "reset_temperature_list"
            /\ task.start.lists[Ram].length = capacity
            /\ StepsSucceeded(3)
            /\ lists'[Ram] = reset_temperature_list(lists[Ram])]_vars

\* a cycle is ending in which the record could not be read: the RAM list is
\* still full, as at the start, and the record is untouched
NoUnpersistedLossWitness ==
    /\ task.pc = "reschedule"
    /\ task.io.op = "nvs_read"
    /\ task.err = E_ERROR
    /\ nvs.present
    /\ nvs.list.length = capacity
    /\ lists[Ram].length = capacity
    /\ lists[Ram] = task.start.lists[Ram]

\* C32: the append inside the sampling cycle never fails with a full buffer.
\* Whenever the handler is about to call append_temperature_sample the RAM
\* list holds fewer than N samples, and every append the handler has made
\* in the running cycle returned E_SUCCESS and not E_NOBUFS.
AppendNeverFull ==
    /\ task.pc = "append_temperature_sample" => lists[Ram].length < capacity
    /\ task.pc # "idle" =>
         \A i \in 1..Len(task.steps) :
           task.steps[i].fn = "append_temperature_sample" =>
             /\ task.steps[i].err = E_SUCCESS
             /\ task.err # E_NOBUFS

\* the handler is about to append in a cycle that began with a full RAM
\* list, which has been compacted into the record and reset
AppendNeverFullWitness ==
    /\ task.pc = "append_temperature_sample"
    /\ task.start.lists[Ram].length = capacity
    /\ StepsSucceeded(5)
    /\ lists[Ram].length = 0

\* C33: persisted length after compaction.  From the successful store of a
\* cycle that began with a full RAM list until the end of that cycle, the
\* persisted list has exactly N samples, whether the persisted list was
\* empty at the start (the N RAM samples are merged exactly) or not (the
\* lists are decimated to N samples); the persisted list is never anything
\* but empty or full.
PersistedLengthAfterCompaction ==
    /\ Persisted.length \in {0, capacity}
    /\ (/\ task.pc # "idle"
        /\ task.start.lists[Ram].length = capacity
        /\ StepsSucceeded(3)) =>
         /\ task.start.persisted.length \in {0, capacity}
         /\ nvs.present
         /\ nvs.list.length = capacity
         /\ Persisted.length = capacity

\* the first compaction after the record was created empty has been stored:
\* the exact merge of the N RAM samples
PersistedLengthWitness ==
    /\ task.pc = "reset_temperature_list"
    /\ task.start.persisted.length = 0
    /\ task.io = [op |-> "nvs_write", rc |-> RecordSize]
    /\ nvs.list.length = capacity
    /\ Valid(nvs.list) = Valid(lists[Ram])

\* a step of the decimation loop that emits a value
Emits == pc = "d_loop" /\ Len(merged') = Len(merged) + 1

\* C34: decimated values stay within their bracket.  For time-ordered
\* inputs every value the decimation loop emits lies between the values of
\* previous and current, the consecutive merged samples that bracket its
\* target; when the target is the timestamp of previous and current is
\* later the value is that of previous, and when the target is the
\* timestamp of current and previous is earlier the value is that of
\* current.
DecimatedWithinBracket ==
    [][Emits =>
         LET previous == Deref(lists, dec.prev)
             current == Deref(lists, dec.current)
             target == dec.merge_uptime
             value == merged'[Len(merged')].temperature
         IN  /\ MIN(previous.temperature, current.temperature) <= value
             /\ value <= MAX(previous.temperature, current.temperature)
             /\ (target = previous.uptime /\ previous.uptime < current.uptime) =>
                  value = previous.temperature
             /\ (target = current.uptime /\ current.uptime > previous.uptime) =>
                  value = current.temperature]_vars

\* C35: frame of compact.  With dest a list of its own,
\* merge_temperature_lists never modifies src1 or src2, on either path, and
\* dest keeps its data and length until the whole output has been staged:
\* it is unchanged while the call runs and whenever the call has returned an
\* error, be it for a null pointer or for a failed decimation.
FrameOfCompact ==
    /\ \A s \in {Src1, Src2} \ {NULL, Dest} : lists[s] = before.lists[s]
    /\ Dest # NULL =>
         /\ pc # "done" => lists[Dest] = before.lists[Dest]
         /\ (pc = "done" /\ ret # E_SUCCESS) => lists[Dest] = before.lists[Dest]
    /\ (pc = "done" /\ NULL \in {Src1, Src2, Dest}) =>
         /\ ret = E_NULL_PTR
         /\ lists = before.lists

\* a decimation has failed after staging some of its output: dest and the
\* sources are what they were
FrameOfCompactWitness ==
    /\ pc = "done"
    /\ ret = E_ERROR
    /\ Len(merged) >= 1
    /\ merged[1] # ZeroSample
    /\ lists = before.lists

\* the samples the iterator m has still to return
Remaining(m) ==
    IF m.current_list = NULL THEN 0
    ELSE 1 + (lists[m.src1].length - m.next_src1_index)
           + (lists[m.src2].length - m.next_src2_index)

\* C36: compact terminates.  For all lists of at most N samples,
\* time-ordered or not, merge_temperature_lists returns; each iteration of
\* the exact-merge loop takes one sample from the iterator or ends the
\* call, and each iteration of the decimation loop emits one of the N
\* outputs, takes one sample from the iterator or ends the call.
CompactTerminates ==
    /\ <>(pc = "done")
    /\ [][(pc = "nd_loop") =>
             (\/ pc' = "done"
              \/ /\ Remaining(iterator') = Remaining(iterator) - 1
                 /\ index' = index + 1
                 /\ index' <= capacity)]_vars
    /\ [][(pc = "d_loop") =>
             (\/ pc' = "done"
              \/ /\ dec'.merge_index = dec.merge_index + 1
                 /\ dec'.merge_index <= capacity
                 /\ iterator' = iterator
              \/ /\ dec'.merge_index = dec.merge_index
                 /\ Remaining(iterator') = Remaining(iterator) - 1)]_vars

\* a decimation of lists that are not time-ordered has returned after
\* emitting its N outputs and taking every sample from the iterator
CompactTerminatesWitness ==
    /\ pc = "done"
    /\ ret = E_SUCCESS
    /\ dec.merge_index = capacity
    /\ iterator.current_list = NULL
    /\ ~ NonDecreasing(Valid(before.lists["src1"]))

\* C37: the configuration store is all-or-nothing.  A store_config_settings
\* call whose struct fails validation returns E_INVAL, has not called
\* nvs_write and leaves the stored record and config_settings as they were.
\* A call whose struct passes validation has called nvs_write and returns
\* E_SUCCESS exactly when nvs_write returned the size of the struct or 0;
\* config_settings is then the caller's struct, and after any other count
\* the call returns E_ERROR and config_settings is what it was before the
\* call.  load_config_settings hands out config_settings itself.
ConfigStoreAllOrNothing ==
    /\ [](LET k == config_call
              size == Len(k.c.wifi_ssid) + Len(k.c.wifi_password)
              full == k.bytes_written = size \/ k.bytes_written = 0
          IN  /\ (k.fn = "store_config_settings" /\ ~k.null) =>
                   IF ~validate_wifi_ssid_and_password(k.c)
                   THEN k.err = "E_INVAL" /\ ~k.wrote /\ config_settings = k.before
                   ELSE /\ k.wrote
                        /\ k.err = E_SUCCESS <=> full
                        /\ full => config_settings = k.c
                        /\ ~full => k.err = E_ERROR /\ config_settings = k.before
              /\ (k.fn = "load_config_settings" /\ ~k.null) =>
                   k.out = config_settings)
    /\ [][(config_call'.fn = "store_config_settings" /\ ~config_call'.wrote)
              => config_nvs' = config_nvs]_vars

\* a store of a valid struct differing from the configuration in force, both
\* with an SSID set, whose nvs_write failed
ConfigStoreWitness ==
    /\ config_call.fn = "store_config_settings"
    /\ config_call.wrote
    /\ config_call.err = E_ERROR
    /\ config_call.c # config_call.before
    /\ config_call.c.wifi_ssid[1] = 65
    /\ config_call.before.wifi_ssid[1] = 65
    /\ config_settings = config_call.before

\* C38: the Wi-Fi connection events commute.  After a successful
\* enable_wifi_station (station CONNECTING), the step that handles the
\* second of the connect-result and the IPv4-address-added events, in
\* whichever order they come and with no disconnect-result event handled
\* since the request, leaves the station CONNECTED and the logins
\* SET_AND_VALID, and has broadcast the connection condition variable.
ConnectionEventsCommute ==
    [][LET both == {"NET_EVENT_WIFI_CONNECT_RESULT", "NET_EVENT_IPV4_ADDR_ADD"}
       IN  (/\ wifi_call.requested
            /\ ~(both \subseteq wifi_call.handled)
            /\ wifi_call'.handled = both)
             => /\ w_data'.station_state = "STATION_STATE_CONNECTED"
                /\ w_data'.logins_state = "LOGINS_STATE_SET_AND_VALID"
                /\ wifi_call'.broadcast]_vars

\* the connect result handled after the address of the same request
ConnectionEventsWitness ==
    /\ wifi_call.requested
    /\ wifi_call.handled = {"NET_EVENT_WIFI_CONNECT_RESULT", "NET_EVENT_IPV4_ADDR_ADD"}
    /\ wifi_call.fn = "NET_EVENT_WIFI_CONNECT_RESULT"
    /\ wifi_call.before.station_state = "STATION_STATE_CONNECTING_AND_WITH_IP"
    /\ w_data.station_state = "STATION_STATE_CONNECTED"

\* C39: the station leaves DISCONNECTED only on request.  The station state
\* changes from DISCONNECTED to another value only in a step of
\* enable_wifi_station that returned E_SUCCESS, and an IPv4-address-added
\* or connect-result event handled while the station is DISCONNECTED leaves
\* it DISCONNECTED.
LeavesDisconnectedOnlyOnRequest ==
    /\ [][(/\ w_data.station_state = "STATION_STATE_DISCONNECTED"
           /\ w_data'.station_state # "STATION_STATE_DISCONNECTED")
            => (/\ wifi_call'.fn = "enable_wifi_station"
                /\ wifi_call'.err = E_SUCCESS)]_vars
    /\ [][(/\ w_data.station_state = "STATION_STATE_DISCONNECTED"
           /\ wifi_call'.fn \in {"NET_EVENT_IPV4_ADDR_ADD",
                                 "NET_EVENT_WIFI_CONNECT_RESULT"}
           /\ wifi_call'.before = w_data)
            => w_data'.station_state = "STATION_STATE_DISCONNECTED"]_vars

============================================================================
